---------------------------- MODULE Spec2Model ----------------------------
(***************************************************************************)
(* Model of the Lean-in-browser module loader (src/src/lean-loader.ts) and *)
(* of the parts of the session controller that call it.                    *)
(*                                                                         *)
(* Five components are modelled, each with its own specification:          *)
(*   SpecResolve   analyzeCodeDependencies / getRequiredOleanPaths /       *)
(*                 getTransitiveDeps over a manifest                       *)
(*   SpecManifest  loadManifest and its module-level singleton             *)
(*   SpecFetch     fetchOleanFiles and its pool of fetchOne workers        *)
(*   SpecListing   fetchCompleteFileList / fetchAllOleanFiles and the      *)
(*                 module-level file list                                  *)
(*   SpecSession   the runs of a session with the artifact cache, which    *)
(*                 drive the fetch orchestrator and the file listing       *)
(* Strings are tuples of one-character strings, so that replace, includes  *)
(* and sort are computed character by character as the code computes them. *)
(***************************************************************************)
EXTENDS Integers, Sequences, FiniteSets, TLC

VARIABLES
    \* ---- resolver (one analyzeCodeDependencies call) ----
    modules,          \* manifest.modules: module name -> imports list
    explicitImports,  \* lean-loader.ts:152
    implicitImports,  \* lean-loader.ts:153
    aPc,              \* position of analyzeCodeDependencies
    analysis,         \* its locals and its return value
    \* ---- manifest loader (module-level singleton and its callers) ----
    manifest,         \* lean-loader.ts:17, 0 for null, else the parsed object
    manifestPromise,  \* lean-loader.ts:18, 0 for null, else the promise
    requests,         \* the requests for /lean-manifest.json issued so far
    callers,          \* the loadManifest calls and what each caller got
    \* ---- fetch orchestrator (one fetchOleanFiles call) ----
    paths,            \* the paths argument
    server,           \* what the server does with a request for each path
    fPc,              \* "called", "running", "resolved" or "rejected"
    pool,             \* queue, the workers suspended in fetchOne, those returned
    files,            \* lean-loader.ts:197
    loaded,           \* lean-loader.ts:199
    invalidCount,     \* lean-loader.ts:200
    progress,         \* the onProgress calls made so far, as <<loaded, total>>
    \* ---- file listing (module-level cache and the calls) ----
    fileListCache,    \* lean-loader.ts:259
    listing,          \* the array that /lean-wasm/lean-lib-files.json holds
    listCallers,      \* the fetchCompleteFileList / fetchAllOleanFiles calls
    \* ---- session controller (the runs of one app) ----
    appMode,          \* which app: "resolver" (part_001) or "bulk" (App.tsx)
    loadedOleans,     \* loadedOleansRef.current, the artifact cache
    run,              \* the current run of runLean and its locals
    \* ---- artifact validator (one isValidOlean call) ----
    oleanData,        \* the data argument
    oleanValid,       \* the value returned
    vPc,              \* "called" or "returned"
    \* ---- archive codec (one parseTar call) ----
    tarEntries,       \* the entries the archive was written from
    tarData,          \* the data argument
    tarOffset,        \* utils.ts:4
    tarFiles,         \* utils.ts:3
    tarHeader,        \* what the last iteration read from its header
    tPc,              \* "loop" or "returned"
    \* ---- import analyzer (parseUserImports and detectImplicitImports) ----
    codeLines,        \* the lines the source text was written from
    code,             \* the source text
    implicitFound,    \* the value detectImplicitImports returned
    dPc,              \* "called" or "returned"
    explicitFound,    \* the value parseUserImports returned
    pPc,              \* "called" or "returned"
    \* ---- sandbox protocol (loadLean, createFreshModule / runInIframe) ----
    hasSharedArrayBuffer, \* App.tsx:100
    wasmLoaded,       \* App.tsx:92
    load,             \* the loadLean calls made and the position of the current one
    delivered,        \* the message or timeout that the last step dispatched, if any
    status,           \* App.tsx:83
    error,            \* App.tsx:85
    scriptRef,        \* scriptRef.current: 0 for null, else the iframe
    moduleRef,        \* moduleRef.current: 0 for null, else the proxy module
    iframes,          \* the iframes created, each with the messages to and from it
    listeners,        \* the message listeners of the window
    timers,           \* the timeouts set and not fired yet
    sbRun             \* the current run and its position

resolveVars == <<modules, explicitImports, implicitImports, aPc, analysis>>
loaderVars == <<manifest, manifestPromise, requests, callers>>
fetchVars == <<paths, server, fPc, pool, files, loaded, invalidCount, progress>>

listVars == <<fileListCache, listing, listCallers>>

sessionVars == <<appMode, loadedOleans, run>>

validatorVars == <<oleanData, oleanValid, vPc>>

tarVars == <<tarEntries, tarData, tarOffset, tarFiles, tarHeader, tPc>>

sourceVars == <<codeLines, code, implicitFound, dPc, explicitFound, pPc>>

codecVars == <<validatorVars, tarVars, sourceVars>>

loadVars == <<hasSharedArrayBuffer, wasmLoaded, load>>

sandboxVars == <<loadVars, delivered, status, error, scriptRef, moduleRef, iframes,
                 listeners, timers, sbRun>>

vars == <<resolveVars, loaderVars, fetchVars, listVars, sessionVars, codecVars,
          sandboxVars>>

---------------------------------------------------------------------------
(* Strings *)

\* UTF-16 code unit of a character (Array.prototype.sort compares by these)
CharCode(c) ==
    CASE c = "." -> 46  [] c = "/" -> 47  [] c = "-" -> 45  [] c = "_" -> 95
      [] c = "0" -> 48  [] c = "1" -> 49  [] c = "2" -> 50  [] c = "3" -> 51
      [] c = "4" -> 52  [] c = "5" -> 53  [] c = "6" -> 54  [] c = "7" -> 55
      [] c = "8" -> 56  [] c = "u" -> 117 [] c = "x" -> 120
      [] c = "A" -> 65  [] c = "B" -> 66  [] c = "D" -> 68
      [] c = "I" -> 73  [] c = "S" -> 83
      [] c = "a" -> 97  [] c = "e" -> 101 [] c = "g" -> 103 [] c = "i" -> 105
      [] c = "l" -> 108 [] c = "n" -> 110 [] c = "o" -> 111
      [] c = "p" -> 112 [] c = "r" -> 114 [] c = "s" -> 115
      [] c = "t" -> 116 [] c = "v" -> 118

\* a < b in the default sort order of Array.prototype.sort
RECURSIVE StrLess(_, _)
StrLess(a, b) ==
    IF b = <<>> THEN FALSE
    ELSE IF a = <<>> THEN TRUE
    ELSE IF CharCode(Head(a)) # CharCode(Head(b))
         THEN CharCode(Head(a)) < CharCode(Head(b))
         ELSE StrLess(Tail(a), Tail(b))

\* mod.replace('.', '/'): only the first dot
replaceFirstDot(mod) ==
    [i \in 1..Len(mod) |->
        IF mod[i] = "." /\ (\A j \in 1..(i - 1) : mod[j] # ".") THEN "/" ELSE mod[i]]

\* mod.replace(/\./g, '/')
replaceDots(mod) == [i \in 1..Len(mod) |-> IF mod[i] = "." THEN "/" ELSE mod[i]]

\* insert x into the sorted sequence s
RECURSIVE SortedInsert(_, _)
SortedInsert(s, x) ==
    IF s = <<>> THEN <<x>>
    ELSE IF StrLess(x, Head(s)) THEN <<x>> \o s
    ELSE <<Head(s)>> \o SortedInsert(Tail(s), x)

\* an array left in the order it was built in
sortForgotten(s) == s

\* array.sort() on an array of strings
RECURSIVE sort(_)
sort(s) == IF s = <<>> THEN <<>> ELSE SortedInsert(sort(Tail(s)), Head(s))

\* [...set]: the elements of a Set as an array
RECURSIVE SetToSeq(_)
SetToSeq(S) ==
    IF S = {} THEN <<>>
    ELSE LET x == CHOOSE y \in S : TRUE IN <<x>> \o SetToSeq(S \ {x})

\* the elements of an array
Range(s) == {s[i] : i \in 1..Len(s)}

nA    == <<"A">>
nB    == <<"B">>
nInit == <<"I", "n", "i", "t">>
nAll  == <<"a", "l", "l">>

\* names with dots, and one with a slash where another has a dot
nInitDataString == <<"I", "n", "i", "t", ".", "D", "a", "t", "a", ".",
                     "S", "t", "r", "i", "n", "g">>
nADotB   == <<"A", ".", "B">>
nASlashB == <<"A", "/", "B">>

sfxOlean   == <<".", "o", "l", "e", "a", "n">>
sfxServer  == sfxOlean \o <<".", "s", "e", "r", "v", "e", "r">>
sfxPrivate == sfxOlean \o <<".", "p", "r", "i", "v", "a", "t", "e">>

---------------------------------------------------------------------------
(* Manifest loader: loadManifest                                           *)
(*                                                                         *)
(* A request is identified by its position in requests; the promise that   *)
(* loadManifest builds on it (fetch.then.then) and the object its body     *)
(* parses to carry the same number. A request is "fetching" until the      *)
(* response arrives, "parsing" while r.json() runs, and then "fulfilled"   *)
(* or "rejected", which is also the state of its promise.                  *)

MaxCallers == 3      \* loadManifest calls made in one session

Callers == 1..MaxCallers

NotCalled == [state |-> "idle", promise |-> 0, value |-> 0, issued |-> FALSE,
              afterFailure |-> FALSE]

\* a loader that never looks at the promise in flight
pendingIgnored(mp) == FALSE

\* if (manifestPromise)
pending(mp) == mp # 0

\* if (manifest)
cached(m) == m # 0

LoaderIdle ==
    /\ manifest = 0
    /\ manifestPromise = 0
    /\ requests = <<>>
    /\ callers = [c \in Callers |-> NotCalled]

\* some earlier loadManifest call has failed: its promise is rejected
SomeFailed == \E r \in 1..Len(requests) : requests[r] = "rejected"

\* a call of loadManifest up to its return: the caller is left awaiting either
\* the cached object or a promise (afterFailure and issued record the
\* circumstances of the call)
LoadManifest(c) ==
    /\ callers[c].state = "idle"
    /\ IF cached(manifest)
       THEN /\ callers' = [callers EXCEPT ![c] =
                  [state |-> "awaiting", promise |-> 0, value |-> manifest,
                   issued |-> FALSE, afterFailure |-> SomeFailed]]
            /\ UNCHANGED <<manifestPromise, requests>>
       ELSE IF pending(manifestPromise)
       THEN /\ callers' = [callers EXCEPT ![c] =
                  [state |-> "awaiting", promise |-> manifestPromise, value |-> 0,
                   issued |-> FALSE, afterFailure |-> SomeFailed]]
            /\ UNCHANGED <<manifestPromise, requests>>
       ELSE /\ requests' = Append(requests, "fetching")
            /\ manifestPromise' = Len(requests) + 1
            /\ callers' = [callers EXCEPT ![c] =
                  [state |-> "awaiting", promise |-> Len(requests) + 1, value |-> 0,
                   issued |-> TRUE, afterFailure |-> SomeFailed]]
    /\ UNCHANGED <<manifest, resolveVars, fetchVars, listVars, sessionVars, codecVars, sandboxVars>>

\* the response to request r arrives: .then(r => { if (!r.ok) throw ...;
\* return r.json() }), or fetch rejects
FetchSettles(r, outcome) ==
    /\ r \in 1..Len(requests)
    /\ requests[r] = "fetching"
    /\ requests' = [requests EXCEPT ![r] = IF outcome = "ok" THEN "parsing" ELSE "rejected"]
    /\ UNCHANGED <<manifest, manifestPromise, callers, resolveVars, fetchVars, listVars, sessionVars,
            codecVars, sandboxVars>>

\* r.json() settles: .then(m => { manifest = m; return m }), or the body is
\* no JSON
JsonSettles(r, outcome) ==
    /\ r \in 1..Len(requests)
    /\ requests[r] = "parsing"
    /\ IF outcome = "parsed"
       THEN /\ requests' = [requests EXCEPT ![r] = "fulfilled"]
            /\ manifest' = r
       ELSE /\ requests' = [requests EXCEPT ![r] = "rejected"]
            /\ UNCHANGED manifest
    /\ UNCHANGED <<manifestPromise, callers, resolveVars, fetchVars, listVars, sessionVars,
            codecVars, sandboxVars>>

\* the caller's await settles
CallerResumes(c) ==
    /\ callers[c].state = "awaiting"
    /\ LET p == callers[c].promise IN
       IF p = 0
       THEN callers' = [callers EXCEPT ![c].state = "resolved"]
       ELSE /\ requests[p] \in {"fulfilled", "rejected"}
            /\ callers' = [callers EXCEPT
                              ![c].state = IF requests[p] = "fulfilled"
                                           THEN "resolved" ELSE "rejected",
                              ![c].value = IF requests[p] = "fulfilled" THEN p ELSE 0]
    /\ UNCHANGED <<manifest, manifestPromise, requests, resolveVars, fetchVars, listVars, sessionVars,
            codecVars, sandboxVars>>

ManifestNext ==
    \/ \E c \in Callers : LoadManifest(c)
    \/ \E r \in Callers, outcome \in {"ok", "not_ok", "network_error"} :
           FetchSettles(r, outcome)
    \/ \E r \in Callers, outcome \in {"parsed", "syntax_error"} : JsonSettles(r, outcome)
    \/ \E c \in Callers : CallerResumes(c)

---------------------------------------------------------------------------
(* Resolver: getTransitiveDeps, getRequiredOleanPaths,                     *)
(* analyzeCodeDependencies                                                 *)

\* bounds of the resolver's inputs
MaxEdges == 3        \* imports over the whole manifest
MaxExplicit == 1     \* explicit import lines of the source text
MaxDepth == 6        \* recursion depth the model follows getTransitiveDeps to

ManifestKeys == {nA, nB, nInit}
ImportValues == {nA, nB, nInit, nAll}
SeedValues == {nA, nB, nAll}

\* a second family of inputs: module names as an import line yields them
DottedSeeds == {nInitDataString, nADotB, nASlashB}
DottedManifests == {<<>>, (nInitDataString :> <<>>), (nADotB :> <<nASlashB>>)}

RECURSIVE SeqsUpTo(_, _)
SeqsUpTo(S, n) ==
    IF n = 0 THEN {<<>>}
    ELSE LET shorter == SeqsUpTo(S, n - 1)
         IN shorter \cup {Append(s, x) : s \in {t \in shorter : Len(t) = n - 1}, x \in S}

\* the module maps over the keys K whose imports lists have at most budget
\* entries in all; a key may also have no entry
RECURSIVE ManifestsOver(_, _)
ManifestsOver(K, budget) ==
    IF K = {} THEN {<<>>}
    ELSE LET k == CHOOSE y \in K : TRUE
         IN ManifestsOver(K \ {k}, budget)
            \cup UNION {{(k :> l) @@ m : m \in ManifestsOver(K \ {k}, budget - Len(l))}
                        : l \in SeqsUpTo(ImportValues, budget)}

\* the manifests: every module map over a subset of ManifestKeys with at most
\* MaxEdges imports in all (an import may name a module that has no entry)
Manifests == ManifestsOver(ManifestKeys, MaxEdges)

\* a traversal that forgets to mark the module it enters
markVisitedForgotten(visited, moduleName) == visited

\* visited.add(moduleName)
markVisited(visited, moduleName) == visited \cup {moduleName}

\* a loop that collects only what the recursive call returns
addDirectForgotten(deps, imp) == deps

\* deps.add(imp)
addDirect(deps, imp) == deps \cup {imp}

\* the traversal state shared by the recursive calls of one getTransitiveDeps
\* call tree: cache and visited are the code's; expanded (how often each
\* module's imports loop was entered), hits (cache hits), deepest (the
\* deepest nesting of calls) and overflow (the recursion went deeper than
\* MaxDepth, where the model stops following it) record what happened
NewTraversal(cache) ==
    [cache |-> cache, visited |-> {}, expanded |-> <<>>,
     hits |-> {}, deepest |-> 0, overflow |-> FALSE]

Max(a, b) == IF a >= b THEN a ELSE b

\* the counts f with one more for k (a name without a count has none yet)
bump(f, k) == IF k \in DOMAIN f THEN [f EXCEPT ![k] = @ + 1] ELSE (k :> 1) @@ f

RECURSIVE getTransitiveDeps(_, _, _, _)
RECURSIVE importsLoop(_, _, _, _, _)

\* returns [deps, st]: the returned Set and the traversal state afterwards
getTransitiveDeps(moduleName, mods, st, fuel) ==
    IF fuel = 0 THEN [deps |-> {}, st |-> [st EXCEPT !.overflow = TRUE]]
    ELSE IF moduleName \in st.visited
    THEN [deps |-> IF moduleName \in DOMAIN st.cache THEN st.cache[moduleName] ELSE {},
          st |-> [st EXCEPT !.deepest = Max(@, MaxDepth - fuel + 1)]]
    ELSE LET st1 == [st EXCEPT !.visited = markVisited(@, moduleName),
                               !.deepest = Max(@, MaxDepth - fuel + 1)] IN
         IF moduleName \in DOMAIN st1.cache
         THEN [deps |-> st1.cache[moduleName],
               st |-> [st1 EXCEPT !.hits = @ \cup {moduleName}]]
         ELSE IF moduleName \notin DOMAIN mods
         THEN [deps |-> {}, st |-> st1]
         ELSE LET st2 == [st1 EXCEPT !.expanded = bump(@, moduleName)]
                  r == importsLoop(mods[moduleName], mods, {}, st2, fuel - 1)
              IN [deps |-> r.deps,
                  st |-> [r.st EXCEPT !.cache = (moduleName :> r.deps) @@ @]]

\* for (const imp of moduleInfo.imports) { ... }
importsLoop(imports, mods, deps, st, fuel) ==
    IF imports = <<>> THEN [deps |-> deps, st |-> st]
    ELSE LET imp == Head(imports) IN
         IF imp = nAll THEN importsLoop(Tail(imports), mods, deps, st, fuel)
         ELSE LET transitive == getTransitiveDeps(imp, mods, st, fuel)
              IN importsLoop(Tail(imports), mods,
                             addDirect(deps, imp) \cup transitive.deps,
                             transitive.st, fuel)

\* a seeds loop that records only what the traversal returns
addSeedForgotten(allModules, imp) == allModules

\* allModules.add(imp)
addSeed(allModules, imp) == allModules \cup {imp}

\* for (const imp of imports) { allModules.add(imp); ... } with a cache shared
\* by the seeds and a fresh visited set per seed (the default parameter).
\* acc = [allModules, cache, traversals]
RECURSIVE seedsLoop(_, _, _)
seedsLoop(imports, mods, acc) ==
    IF imports = <<>> THEN acc
    ELSE LET imp == Head(imports)
             r == getTransitiveDeps(imp, mods, NewTraversal(acc.cache), MaxDepth)
         IN seedsLoop(Tail(imports), mods,
                [allModules |-> addSeed(acc.allModules, imp) \cup r.deps,
                 cache |-> r.st.cache,
                 traversals |-> Append(acc.traversals,
                     [seed |-> imp, deps |-> r.deps, expanded |-> r.st.expanded,
                      hits |-> r.st.hits, deepest |-> r.st.deepest,
                      overflow |-> r.st.overflow])])

resolveSeeds(imports, mods) ==
    seedsLoop(imports, mods, [allModules |-> {}, cache |-> <<>>, traversals |-> <<>>])

\* the three candidate paths of every module, sorted
RECURSIVE pathsOf(_)
pathsOf(modSeq) ==
    IF modSeq = <<>> THEN <<>>
    ELSE LET basePath == replaceDots(Head(modSeq))
         IN <<basePath \o sfxOlean, basePath \o sfxServer, basePath \o sfxPrivate>>
            \o pathsOf(Tail(modSeq))

getRequiredOleanPaths(imports, mods) ==
    sort(pathsOf(SetToSeq(resolveSeeds(imports, mods).allModules)))

\* (a spread without the Set)
dedupeKept(s, seen) == s

\* [...new Set([...explicitImports, ...implicitImports])]
RECURSIVE dedupe(_, _)
dedupe(s, seen) ==
    IF s = <<>> THEN <<>>
    ELSE IF Head(s) \in seen THEN dedupe(Tail(s), seen)
    ELSE <<Head(s)>> \o dedupe(Tail(s), seen \cup {Head(s)})

NoAnalysis ==
    [allImports |-> <<>>, allModules |-> <<>>, oleanPaths |-> <<>>,
     cache |-> <<>>, traversals |-> <<>>,
     again |-> [allModules |-> <<>>, oleanPaths |-> <<>>]]

\* the resolver before any call, as the other specifications hold it
ResolveIdle ==
    /\ modules = <<>>
    /\ explicitImports = <<>>
    /\ implicitImports = <<>>
    /\ aPc = "idle"
    /\ analysis = NoAnalysis

ResolveInit ==
    /\ \/ /\ modules \in Manifests
          /\ explicitImports \in SeqsUpTo(SeedValues, MaxExplicit)
       \/ /\ modules \in DottedManifests
          /\ explicitImports \in SeqsUpTo(DottedSeeds, MaxExplicit + 1)
    /\ implicitImports \in {<<>>, <<nInit>>}
    /\ aPc = "start"
    /\ analysis = NoAnalysis

\* analyzeCodeDependencies, lines 154-166: the seed list and the closure loop
\* (the manifest has been loaded)
AnalyzeClosure ==
    /\ aPc = "start"
    /\ LET allImports == dedupe(explicitImports \o implicitImports, {})
           r == resolveSeeds(allImports, modules)
       IN analysis' = [analysis EXCEPT !.allImports = allImports,
                                       !.allModules = sort(SetToSeq(r.allModules)),
                                       !.cache = r.cache,
                                       !.traversals = r.traversals]
    /\ aPc' = "paths"
    /\ UNCHANGED <<modules, explicitImports, implicitImports, loaderVars, fetchVars, listVars, sessionVars,
            codecVars, sandboxVars>>

\* analyzeCodeDependencies, lines 168-175: getRequiredOleanPaths and the return
AnalyzeReturn ==
    /\ aPc = "paths"
    /\ analysis' = [analysis EXCEPT
                       !.oleanPaths = getRequiredOleanPaths(analysis.allImports, modules)]
    /\ aPc' = "done"
    /\ UNCHANGED <<modules, explicitImports, implicitImports, loaderVars, fetchVars, listVars, sessionVars,
            codecVars, sandboxVars>>

\* analyzeCodeDependencies called once more with the same source text: its
\* Sets and the cache of getRequiredOleanPaths are new ones (lines 120-122,
\* 157-158), the manifest is the one already loaded
AnalyzeAgain ==
    /\ aPc = "done"
    /\ LET allImports == dedupe(explicitImports \o implicitImports, {})
           r == resolveSeeds(allImports, modules)
       IN analysis' = [analysis EXCEPT
              !.again = [allModules |-> sort(SetToSeq(r.allModules)),
                         oleanPaths |-> getRequiredOleanPaths(allImports, modules)]]
    /\ aPc' = "again"
    /\ UNCHANGED <<modules, explicitImports, implicitImports, loaderVars, fetchVars, listVars, sessionVars,
            codecVars, sandboxVars>>

ResolveNext == AnalyzeClosure \/ AnalyzeReturn \/ AnalyzeAgain


---------------------------------------------------------------------------
(* Fetch orchestrator: isValidOlean, fetchOleanFiles, fetchOne             *)
(*                                                                         *)
(* The workers are anonymous closures that differ only in the path they    *)
(* wait for, so the suspended workers are kept as a count per path.        *)
(* fetchOne suspends at `await fetch(...)` and at `await                   *)
(* response.arrayBuffer()`; between the two it touches no shared variable, *)
(* so one step takes a worker from its request to the outcome: a body      *)
(* (response.ok), a non-OK response, or a rejection of either await.       *)

concurrency == 20

MaxShort == 2        \* the path lists of every content have up to this length
MaxExtra == 2        \* the long path lists exceed concurrency by up to this

OLEAN_MAGIC == <<111, 108, 101, 97>>

\* a validator that checks the magic bytes only
isValidOleanMagicOnly(data) ==
    /\ Len(data) >= 4
    /\ \A i \in 1..4 : data[i] = OLEAN_MAGIC[i]

\* (a loop that stops after the first byte)
isValidOleanFirstByte(data) ==
    IF Len(data) < 32 THEN FALSE
    ELSE \A i \in 1..1 : data[i] = OLEAN_MAGIC[i]

isValidOlean(data) ==
    IF Len(data) < 32 THEN FALSE
    ELSE \A i \in 1..4 : data[i] = OLEAN_MAGIC[i]

\* path.includes(sub)
includes(path, sub) ==
    \E i \in 0..(Len(path) - Len(sub)) : SubSeq(path, i + 1, i + Len(sub)) = sub

pPrimary == nA \o sfxOlean
pServer  == nA \o sfxServer
pPrivate == nA \o sfxPrivate

FetchPathSeq == <<pPrimary, pServer, pPrivate>>
FetchPaths == {pPrimary, pServer, pPrivate}

Zeros(n) == [i \in 1..n |-> 0]

\* response bodies: a well-formed artifact header, one with a wrong first
\* byte, and one with the magic bytes that is a byte short of the header size
Bodies == {OLEAN_MAGIC \o Zeros(28), <<0, 108, 101, 97>> \o Zeros(28),
           OLEAN_MAGIC \o Zeros(27)}

\* what a request can come to; "never" is a request that does not complete
Behaviours ==
    {[kind |-> "ok", body |-> b] : b \in Bodies}
    \cup {[kind |-> k, body |-> <<>>] : k \in {"not_ok", "network_error", "never"}}

\* the path list of length n that repeats FetchPathSeq
Cyclic(n) == [i \in 1..n |-> FetchPathSeq[((i - 1) % Len(FetchPathSeq)) + 1]]

PathLists ==
    SeqsUpTo(FetchPaths, MaxShort)
    \cup {Cyclic(n) : n \in (concurrency + 1)..(concurrency + MaxExtra)}

NoPool == [queue |-> <<>>, awaiting |-> [p \in FetchPaths |-> 0], workersDone |-> 0,
           requested |-> <<>>, undefinedTaken |-> FALSE, overtaken |-> FALSE]

FetchIdle ==
    /\ paths = <<>>
    /\ server = <<>>
    /\ fPc = "idle"
    /\ pool = <<>>
    /\ files = <<>>
    /\ loaded = 0
    /\ invalidCount = 0
    /\ progress = <<>>

FetchInit ==
    /\ paths \in PathLists
    /\ server \in [FetchPaths -> Behaviours]
    /\ fPc = "called"
    /\ pool = NoPool
    /\ files = <<>>
    /\ loaded = 0
    /\ invalidCount = 0
    /\ progress = <<>>

\* a pool with one worker per path
poolSizePerPath(total) == total

\* for (let i = 0; i < concurrency; i++) workers.push(fetchOne())
poolSize(total) == concurrency

\* a worker that reads the head of the queue and removes its last entry
queueShiftWrongEnd(q) ==
    [entry |-> IF q = <<>> THEN 0 ELSE Head(q),
     rest |-> IF q = <<>> THEN <<>> ELSE SubSeq(q, 1, Len(q) - 1)]

\* queue.shift(): the entry taken (0 for undefined) and the queue left.
\* The queue holds the positions of the entries in paths.
queueShift(q) ==
    [entry |-> IF q = <<>> THEN 0 ELSE Head(q),
     rest |-> IF q = <<>> THEN <<>> ELSE Tail(q)]

\* fetchOne from the head of its while loop to its next await (or its
\* return): requested counts the requests issued for each entry
workerLoop(P, list) ==
    IF Len(P.queue) > 0
    THEN LET s == queueShift(P.queue) IN
         IF s.entry = 0
         THEN [P EXCEPT !.queue = s.rest, !.undefinedTaken = TRUE,
                        !.workersDone = @ + 1]
         ELSE [P EXCEPT !.queue = s.rest,
                        !.awaiting[list[s.entry]] = @ + 1,
                        !.requested[s.entry] = @ + 1]
    ELSE [P EXCEPT !.workersDone = @ + 1]

RECURSIVE startWorkers(_, _, _)
startWorkers(n, P, list) ==
    IF n = 0 THEN P ELSE startWorkers(n - 1, workerLoop(P, list), list)

\* a try block that lets a rejected fetch escape
absorbedResponsesOnly(kind) == kind # "network_error"

\* try { ... } catch (e) { ... }: no outcome of an attempt leaves fetchOne
absorbed(kind) == TRUE

\* a callback called before loaded is incremented
reportProgressEarly(calls, n, total) == Append(calls, <<n - 1, total>>)

\* onProgress?.(loaded, total)
reportProgress(calls, n, total) == Append(calls, <<n, total>>)

\* fetchOleanFiles up to `await Promise.all(workers)`
FetchOleanFiles ==
    /\ fPc = "called"
    /\ pool' = startWorkers(poolSize(Len(paths)),
                   [NoPool EXCEPT !.queue = [i \in 1..Len(paths) |-> i],
                                  !.requested = [i \in 1..Len(paths) |-> 0]],
                   paths)
    /\ fPc' = "running"
    /\ UNCHANGED <<paths, server, files, loaded, invalidCount, progress,
                   resolveVars, loaderVars, listVars, sessionVars, codecVars, sandboxVars>>

\* a map keyed by the number of the completion
fileKeyByCompletion(path, n) == n

\* files.set(path, data): the key is the path
fileKey(path, n) == path

\* where the path p is first listed
FirstIndex(p, list) == CHOOSE i \in 1..Len(list) : list[i] = p /\ \A j \in 1..(i - 1) : list[j] # p

\* the request for p completes while a request for a path listed before p is
\* still awaited: the requests complete in another order than they are listed
Overtakes(p) ==
    \E q \in FetchPaths \ {p} :
        pool.awaiting[q] > 0 /\ FirstIndex(q, paths) < FirstIndex(p, paths)

\* a worker that keeps the bytes of every OK response
filesSetUnchecked(kind, data) == kind = "ok"

\* if (response.ok) { ... if (isValidOlean(data)) { files.set(path, data) } }
filesSet(kind, data) == kind = "ok" /\ isValidOlean(data)

\* the request of a worker waiting for path p comes to its outcome and the
\* worker runs to its next await or to its return
RequestSettles(p) ==
    /\ fPc \in {"running", "rejected"}
    /\ pool.awaiting[p] > 0
    /\ server[p].kind # "never"
    /\ LET kind == server[p].kind
           data == server[p].body
           P == [pool EXCEPT !.awaiting[p] = @ - 1,
                             !.overtaken = @ \/ Overtakes(p)]
       IN IF ~absorbed(kind)
          THEN /\ pool' = P
               /\ fPc' = "rejected"
               /\ UNCHANGED <<files, loaded, invalidCount, progress>>
          ELSE /\ files' = IF filesSet(kind, data)
                           THEN (fileKey(p, loaded + 1) :> data) @@ files ELSE files
               /\ invalidCount' =
                      IF /\ kind = "ok"
                         /\ ~isValidOlean(data)
                         /\ ~includes(p, sfxServer)
                         /\ ~includes(p, sfxPrivate)
                      THEN invalidCount + 1 ELSE invalidCount
               /\ loaded' = loaded + 1
               /\ progress' = reportProgress(progress, loaded + 1, Len(paths))
               /\ pool' = workerLoop(P, paths)
               /\ UNCHANGED fPc
    /\ UNCHANGED <<paths, server, resolveVars, loaderVars, listVars, sessionVars, codecVars, sandboxVars>>

\* every worker has returned: Promise.all resolves and fetchOleanFiles
\* returns files
BatchSettles ==
    /\ fPc = "running"
    /\ pool.workersDone = poolSize(Len(paths))
    /\ fPc' = "resolved"
    /\ UNCHANGED <<paths, server, pool, files, loaded, invalidCount, progress,
                   resolveVars, loaderVars, listVars, sessionVars, codecVars, sandboxVars>>

FetchNext ==
    \/ FetchOleanFiles
    \/ \E p \in FetchPaths : RequestSettles(p)
    \/ BatchSettles

---------------------------------------------------------------------------
(* File listing: fetchCompleteFileList, fetchAllOleanFiles                  *)
(*                                                                         *)
(* Every call that finds no cached list issues its own request, so a call  *)
(* and its request share one number. A call is "fetching" until the        *)
(* response arrives and "parsing" while response.json() runs. When         *)
(* fetchCompleteFileList returns, its caller resumes having read nothing   *)
(* but the returned array, so the return and what the caller does with it  *)
(* are one step: a direct call is "resolved" (or "rejected", had the       *)
(* function thrown); a fetchAllOleanFiles call is "resolved" with an empty *)
(* map or "handed", when it has passed the list to fetchOleanFiles.        *)

MaxListCallers == 3  \* fetchCompleteFileList / fetchAllOleanFiles calls made

ListCallers == 1..MaxListCallers

\* arrays as the listing code sees them: obj tells the array objects apart
\* (the number of the call whose response.json() built it, 0 for a new []),
\* list is the content; NoList stands for null
NoList == [obj |-> -1, list |-> <<>>]
EmptyArray == [obj |-> 0, list |-> <<>>]

\* what /lean-wasm/lean-lib-files.json holds
Listings == {<<>>, FetchPathSeq}

ListingFailures == {"not_ok", "network_error", "syntax_error"}

NotCalledListing ==
    [state |-> "idle", via |-> "direct", value |-> NoList, issued |-> FALSE,
     outcome |-> "none", map |-> "none",
     successBefore |-> FALSE, failureBefore |-> FALSE, overlapped |-> FALSE]

\* the calls whose request is in flight
ListInFlight == {c \in DOMAIN listCallers : listCallers[c].state \in {"fetching", "parsing"}}

\* a loader that never finds a cached list
listCachedNever(cache) == FALSE

\* if (fileListCache): an array, even an empty one, is truthy
listCached(cache) == cache # NoList

\* a try block that ends before response.json()
listCaughtFetchOnly(kind) == kind # "syntax_error"

\* the try/catch spans both awaits, and a response that is not OK throws
\* nothing: every failure ends at `return []`
listCaught(kind) == TRUE

\* the listing code before any call, as the other specifications hold it
ListingIdle ==
    /\ fileListCache = NoList
    /\ listing = <<>>
    /\ listCallers = <<>>

ListingInit ==
    /\ fileListCache = NoList
    /\ listing \in Listings
    /\ listCallers = [c \in ListCallers |-> NotCalledListing]

\* fetchCompleteFileList returns fileList to the call rec: a direct caller has
\* its array; fetchAllOleanFiles goes on with lines 284-290
listingReturned(rec, fileList) ==
    IF rec.via = "direct"
    THEN [rec EXCEPT !.state = "resolved", !.value = fileList]
    ELSE IF Len(fileList.list) = 0
         THEN [rec EXCEPT !.state = "resolved", !.value = fileList, !.map = "empty"]
         ELSE [rec EXCEPT !.state = "handed", !.value = fileList,
                          !.map = "fetchOleanFiles"]

\* the request of the call rec failed (lines 270-275)
listingFailed(rec, kind) ==
    IF listCaught(kind)
    THEN listingReturned([rec EXCEPT !.outcome = kind], EmptyArray)
    ELSE [rec EXCEPT !.state = "rejected", !.outcome = kind]

\* call c enters fetchCompleteFileList (lines 262-265), directly or as the
\* first statement of fetchAllOleanFiles (line 282)
CallListing(c, via) ==
    /\ listCallers[c].state = "idle"
    /\ LET called == [listCallers[c] EXCEPT
               !.via = via,
               !.successBefore = \E d \in DOMAIN listCallers : listCallers[d].outcome = "ok",
               !.failureBefore =
                   \E d \in DOMAIN listCallers : listCallers[d].outcome \in ListingFailures,
               !.overlapped = ListInFlight # {}]
       IN listCallers' =
              [listCallers EXCEPT ![c] =
                  IF listCached(fileListCache)
                  THEN listingReturned(called, fileListCache)
                  ELSE [called EXCEPT !.state = "fetching", !.issued = TRUE]]
    /\ UNCHANGED <<fileListCache, listing>>

\* a call of fetchCompleteFileList or fetchAllOleanFiles by some caller (the
\* calls are made in the order of their numbers)
FetchCompleteFileList(c, via) ==
    /\ IF c = 1 THEN TRUE ELSE listCallers[c - 1].state # "idle"
    /\ CallListing(c, via)
    /\ UNCHANGED <<resolveVars, loaderVars, fetchVars, sessionVars, codecVars, sandboxVars>>

\* `await fetch(...)` of call c settles (lines 265-266, 270-275)
ListFetchSettles(c, outcome) ==
    /\ listCallers[c].state = "fetching"
    /\ listCallers' =
           [listCallers EXCEPT ![c] =
               IF outcome = "ok" THEN [@ EXCEPT !.state = "parsing"]
               ELSE listingFailed(@, outcome)]
    /\ UNCHANGED <<fileListCache, listing, resolveVars, loaderVars, fetchVars, sessionVars,
            codecVars, sandboxVars>>

\* `await response.json()` of call c settles (lines 267-268, 270-275)
ListJsonSettles(c, outcome) ==
    /\ listCallers[c].state = "parsing"
    /\ IF outcome = "parsed"
       THEN /\ fileListCache' = [obj |-> c, list |-> listing]
            /\ listCallers' = [listCallers EXCEPT ![c] =
                   listingReturned([@ EXCEPT !.outcome = "ok"],
                                   [obj |-> c, list |-> listing])]
       ELSE /\ listCallers' = [listCallers EXCEPT ![c] = listingFailed(@, outcome)]
            /\ UNCHANGED fileListCache
    /\ UNCHANGED <<listing, resolveVars, loaderVars, fetchVars, sessionVars, codecVars, sandboxVars>>

ListingNext ==
    \/ \E c \in ListCallers, via \in {"direct", "all"} : FetchCompleteFileList(c, via)
    \/ \E c \in ListCallers, outcome \in {"ok", "not_ok", "network_error"} :
           ListFetchSettles(c, outcome)
    \/ \E c \in ListCallers, outcome \in {"parsed", "syntax_error"} :
           ListJsonSettles(c, outcome)

---------------------------------------------------------------------------
(* Session controller: runLean with loadRequiredOleans (the app that        *)
(* resolves per program, src/unnamed/part_001) or with loadAllOleans (the   *)
(* app that loads the whole library, src/src/App.tsx)                       *)
(*                                                                         *)
(* The Run button is disabled while a run is on, so the runs of a session  *)
(* follow one another. Runs happen only after loadLean has succeeded: in   *)
(* the resolving app the manifest is then loaded and                       *)
(* analyzeCodeDependencies cannot reject. A run calls fetchOleanFiles by   *)
(* setting the fetch orchestrator's variables to the state of a new call;  *)
(* the orchestrator's actions then run that call.                          *)

MaxRuns == 2         \* runs made in one session

\* the calls of fetchCompleteFileList that loadLean or one run makes; the
\* record of its calls is dropped when loadLean or the run ends
SessionListCallers == 1..2

\* what the server of a session does with a request for a path: the four
\* behaviours that end, one of each kind
SessionBehaviours ==
    {b \in Behaviours : b.kind # "never" /\ (b.kind = "ok" => Len(b.body) = 32)}

\* deps.oleanPaths of the programs run: a program that imports nothing and
\* names `prelude`, and a program that imports the module A
RequiredLists == {getRequiredOleanPaths(imports, <<>>) : imports \in SeqsUpTo({nA}, 1)}

NoRun == [pc |-> "idle", n |-> 0, required |-> <<>>, needed |-> <<>>,
          cachedThen |-> {}, result |-> <<>>, failed |-> FALSE]

\* a cache whose old entries are dropped when new files arrive
cacheReplaced(cache, newFiles) == newFiles

\* newFiles.forEach((data, path) => loadedOleansRef.current.set(path, data))
cacheNewFiles(cache, newFiles) == newFiles @@ cache

\* a filter that lets every required path through
isNeededAlways(cache, path) == TRUE

\* !loadedOleansRef.current.has(path)
isNeeded(cache, path) == path \notin DOMAIN cache

\* the needed array of loadRequiredOleans (part_001:280-285)
RECURSIVE neededOf(_, _)
neededOf(required, cache) ==
    IF required = <<>> THEN <<>>
    ELSE IF isNeeded(cache, Head(required))
         THEN <<Head(required)>> \o neededOf(Tail(required), cache)
         ELSE neededOf(Tail(required), cache)

\* the result map of loadRequiredOleans (part_001:304-310)
resultOf(required, cache) ==
    [p \in Range(required) \cap DOMAIN cache |-> cache[p]]

\* the session controller before the app is loaded, as the other
\* specifications hold it
SessionIdle ==
    /\ appMode = "none"
    /\ loadedOleans = <<>>
    /\ run = NoRun

\* a session of either app: the resolving app after loadLean, the app that
\* loads everything as loadLean is about to request the file listing
SessionInit ==
    /\ appMode \in {"resolver", "bulk"}
    /\ loadedOleans = <<>>
    /\ run = [NoRun EXCEPT !.pc = IF appMode = "resolver" THEN "ready" ELSE "loadLean"]
    /\ paths = <<>>
    /\ server \in [FetchPaths -> SessionBehaviours]
    /\ fPc = "idle"
    /\ pool = <<>>
    /\ files = <<>>
    /\ loaded = 0
    /\ invalidCount = 0
    /\ progress = <<>>
    /\ fileListCache = NoList
    /\ IF appMode = "resolver"
       THEN listing = <<>> /\ listCallers = <<>>
       ELSE /\ listing \in Listings
            /\ listCallers = [c \in SessionListCallers |-> NotCalledListing]

\* the fetch orchestrator's variables as fetchOleanFiles(list, ...) finds them
callFetchOleanFiles(list) ==
    /\ paths' = list
    /\ fPc' = "called"
    /\ pool' = NoPool
    /\ files' = <<>>
    /\ loaded' = 0
    /\ invalidCount' = 0
    /\ progress' = <<>>
    /\ UNCHANGED server

\* the locals of a fetchOleanFiles call that has returned are dropped
fetchReturned ==
    /\ paths' = <<>>
    /\ fPc' = "idle"
    /\ pool' = <<>>
    /\ files' = <<>>
    /\ loaded' = 0
    /\ invalidCount' = 0
    /\ progress' = <<>>
    /\ UNCHANGED server

\* the last fetchCompleteFileList call made (the calls are numbered in the
\* order they are made in)
LastListCall == Cardinality({c \in DOMAIN listCallers : listCallers[c].state # "idle"})

\* the next call to make
NextListCall == LastListCall + 1

\* loadLean of the app that loads everything: loadFileList (App.tsx:295-300,
\* 350-353)
LoadLean ==
    /\ appMode = "bulk"
    /\ run.pc = "loadLean"
    /\ CallListing(NextListCall, "direct")
    /\ run' = [run EXCEPT !.pc = "loading"]
    /\ UNCHANGED <<appMode, loadedOleans, resolveVars, loaderVars, fetchVars, codecVars, sandboxVars>>

\* loadFileList has its list (an empty one after a failure) and loadLean ends
LoadLeanSettles ==
    /\ run.pc = "loading"
    /\ listCallers[LastListCall].state = "resolved"
    /\ run' = [run EXCEPT !.pc = "ready"]
    /\ listCallers' = [c \in SessionListCallers |-> NotCalledListing]
    /\ UNCHANGED <<appMode, loadedOleans, resolveVars, loaderVars, fetchVars,
                   fileListCache, listing, codecVars, sandboxVars>>

\* runLean of the resolving app up to `await analyzeCodeDependencies(code)`
\* (part_001:421-439, 267-269)
RunLeanRequired ==
    /\ appMode = "resolver"
    /\ run.pc = "ready"
    /\ run.n < MaxRuns
    /\ run' = [run EXCEPT !.pc = "analyzing", !.n = @ + 1, !.required = <<>>,
                          !.needed = <<>>, !.cachedThen = {}, !.result = <<>>]
    /\ UNCHANGED <<appMode, loadedOleans, resolveVars, loaderVars, fetchVars, listVars,
            codecVars, sandboxVars>>

\* loadRequiredOleans from the analysis to `await fetchOleanFiles(needed)`,
\* or to its return when nothing is needed (part_001:269-311)
LoadRequiredOleans ==
    /\ run.pc = "analyzing"
    /\ \E required \in RequiredLists :
           LET needed == neededOf(required, loadedOleans) IN
           IF Len(needed) > 0
           THEN /\ callFetchOleanFiles(needed)
                /\ run' = [run EXCEPT !.pc = "fetching", !.required = required,
                                      !.needed = needed,
                                      !.cachedThen = DOMAIN loadedOleans]
           ELSE /\ run' = [run EXCEPT !.pc = "loaded", !.required = required,
                                      !.needed = needed,
                                      !.cachedThen = DOMAIN loadedOleans,
                                      !.result = resultOf(required, loadedOleans)]
                /\ UNCHANGED fetchVars
    /\ UNCHANGED <<appMode, loadedOleans, resolveVars, loaderVars, listVars, codecVars, sandboxVars>>

\* a loader that never finds its cache filled
alreadyCachedNever(cache) == FALSE

\* if (loadedOleansRef.current.size > 0)
alreadyCached(cache) == DOMAIN cache # {}

\* runLean of the app that loads everything, into loadAllOleans up to
\* `await fetchCompleteFileList()`, or to its return when the cache holds a
\* file (App.tsx:435-452, 303-311)
LoadAllOleans ==
    /\ appMode = "bulk"
    /\ run.pc = "ready"
    /\ run.n < MaxRuns
    /\ IF alreadyCached(loadedOleans)
       THEN /\ run' = [run EXCEPT !.pc = "loaded", !.n = @ + 1,
                                  !.cachedThen = DOMAIN loadedOleans,
                                  !.result = loadedOleans]
            /\ UNCHANGED listVars
       ELSE /\ CallListing(NextListCall, "direct")
            /\ run' = [run EXCEPT !.pc = "listing", !.n = @ + 1, !.cachedThen = {},
                                  !.result = <<>>]
    /\ UNCHANGED <<appMode, loadedOleans, resolveVars, loaderVars, fetchVars, codecVars, sandboxVars>>

\* loadAllOleans has the list and calls fetchAllOleanFiles, which calls
\* fetchCompleteFileList again (App.tsx:311-318, lean-loader.ts:282)
FetchAllOleanFiles ==
    /\ run.pc = "listing"
    /\ listCallers[LastListCall].state = "resolved"
    /\ CallListing(NextListCall, "all")
    /\ run' = [run EXCEPT !.pc = "listingAgain"]
    /\ UNCHANGED <<appMode, loadedOleans, resolveVars, loaderVars, fetchVars, codecVars, sandboxVars>>

\* fetchAllOleanFiles has the list: it returns an empty map, or it calls
\* fetchOleanFiles with the list (lean-loader.ts:284-290)
FetchListed ==
    /\ run.pc = "listingAgain"
    /\ LET call == listCallers[LastListCall] IN
       \/ /\ call.state = "handed"
          /\ callFetchOleanFiles(call.value.list)
          /\ run' = [run EXCEPT !.pc = "fetching", !.needed = call.value.list]
       \/ /\ call.state = "resolved"
          /\ run' = [run EXCEPT !.pc = "loaded"]
          /\ UNCHANGED fetchVars
    /\ UNCHANGED <<appMode, loadedOleans, resolveVars, loaderVars, listVars, codecVars, sandboxVars>>

\* fetchOleanFiles has resolved: the new files go into the cache and the
\* loader returns (part_001:290-311, App.tsx:316-326)
CacheNewFiles ==
    /\ run.pc = "fetching"
    /\ fPc = "resolved"
    /\ loadedOleans' = cacheNewFiles(loadedOleans, files)
    /\ run' = [run EXCEPT !.pc = "loaded",
                          !.result = IF appMode = "resolver"
                                     THEN resultOf(run.required, loadedOleans')
                                     ELSE files]
    /\ fetchReturned
    /\ UNCHANGED <<appMode, resolveVars, loaderVars, listVars, codecVars, sandboxVars>>

\* the rest of runLean: the sandbox runs the program or fails, and the
\* status is 'ready' again (part_001:440-455, App.tsx:453-466)
RunSettles(outcome) ==
    /\ run.pc = "loaded"
    /\ run' = [run EXCEPT !.pc = "ready", !.failed = (outcome = "error")]
    /\ listCallers' = [c \in DOMAIN listCallers |-> NotCalledListing]
    /\ UNCHANGED <<appMode, loadedOleans, resolveVars, loaderVars, fetchVars,
                   fileListCache, listing, codecVars, sandboxVars>>

SessionNext ==
    \/ LoadLean
    \/ LoadLeanSettles
    \/ RunLeanRequired
    \/ LoadRequiredOleans
    \/ LoadAllOleans
    \/ FetchAllOleanFiles
    \/ FetchListed
    \/ CacheNewFiles
    \/ \E outcome \in {"ok", "error"} : RunSettles(outcome)
    \/ FetchNext
    \/ \E c \in DOMAIN listCallers, outcome \in {"ok", "not_ok", "network_error"} :
           ListFetchSettles(c, outcome)
    \/ \E c \in DOMAIN listCallers, outcome \in {"parsed", "syntax_error"} :
           ListJsonSettles(c, outcome)

---------------------------------------------------------------------------
(***************************************************************************)
(* Artifact validator: one call of isValidOlean on a buffer                *)
(***************************************************************************)

\* how many bytes a buffer may have beyond the 32 of the header
MaxTail == 1

\* the values a byte of a buffer takes: those of the signature and two others
HeadBytes == {0, 97, 101, 108, 111}
TailBytes == {0, 255}

BufferLengths == {0, 3, 4, 31} \cup {32 + k : k \in 0..MaxTail}

\* the buffer of n bytes that starts as head does and goes on with the byte fill
Buffer(head, fill, n) == [i \in 1..n |-> IF i <= 4 THEN head[i] ELSE fill]

Buffers ==
    {Buffer(head, fill, n) : head \in [1..4 -> HeadBytes], fill \in TailBytes,
                             n \in BufferLengths}

ValidatorIdle ==
    /\ oleanData = <<>>
    /\ oleanValid = FALSE
    /\ vPc = "idle"

ValidatorInit ==
    /\ oleanData \in Buffers
    /\ oleanValid = FALSE
    /\ vPc = "called"

\* lean-loader.ts:182-189
IsValidOlean ==
    /\ vPc = "called"
    /\ oleanValid' = isValidOlean(oleanData)
    /\ vPc' = "returned"
    /\ UNCHANGED <<oleanData, tarVars, sourceVars, resolveVars, loaderVars, fetchVars, listVars,
                   sessionVars, sandboxVars>>

ValidatorNext == IsValidOlean

---------------------------------------------------------------------------
(***************************************************************************)
(* Archive codec: one call of parseTar                                     *)
(* The archive is written from a list of entries, each a header block      *)
(* followed by the data padded to whole blocks, then zero blocks.          *)
(***************************************************************************)

MaxEntries == 2      \* entries of the archive

BLOCK == 512

Min(a, b) == IF a <= b THEN a ELSE b

\* String.fromCharCode / TextDecoder.decode for the characters in use
Chars == {".", "/", "-", "_", "0", "1", "2", "3", "4", "5", "6", "7", "8",
          "A", "B", "D", "I", "S", "a", "r", "s", "t", "u", "x"}
fromCharCode(b) ==
    IF \E c \in Chars : CharCode(c) = b
    THEN CHOOSE c \in Chars : CharCode(c) = b
    ELSE "?"
decode(bytes) == [i \in 1..Len(bytes) |-> fromCharCode(bytes[i])]
encode(str) == [i \in 1..Len(str) |-> CharCode(str[i])]

\* Uint8Array.subarray / slice: the bytes from index begin up to end, where a
\* negative index counts from the end and both are clamped to the length
subarray(data, begin, end) ==
    LET rel(i) == IF i < 0 THEN Max(Len(data) + i, 0) ELSE Min(i, Len(data))
        b == rel(begin)
        e == rel(end)
    IN IF b >= e THEN <<>> ELSE SubSeq(data, b + 1, e)

\* header[i], -1 for undefined
At(header, i) == IF i >= 0 /\ i < Len(header) THEN header[i + 1] ELSE -1

\* the index where the scan from `from` stops: at `to`, or at the first byte
\* that is one of `stops` (utils.ts:15, 22, 31-32)
RECURSIVE scanEnd(_, _, _, _)
scanEnd(header, from, to, stops) ==
    IF from < to /\ At(header, from) \notin stops
    THEN scanEnd(header, from + 1, to, stops)
    ELSE from

\* parseInt(s, 8): an optional sign, then the longest run of octal digits;
\* NaN when there is no digit
OctalDigits == {"0", "1", "2", "3", "4", "5", "6", "7"}
OctalValue(c) == CharCode(c) - 48
RECURSIVE octalRun(_, _, _)
octalRun(s, i, acc) ==
    IF i <= Len(s) /\ s[i] \in OctalDigits
    THEN octalRun(s, i + 1, [n |-> acc.n + 1, v |-> acc.v * 8 + OctalValue(s[i])])
    ELSE acc
parseInt8(s) ==
    LET signed == s # <<>> /\ s[1] \in {"-", "+"}
        digits == octalRun(s, IF signed THEN 2 ELSE 1, [n |-> 0, v |-> 0])
    IN IF digits.n = 0 THEN [nan |-> TRUE, value |-> 0]
       ELSE [nan |-> FALSE, value |-> IF s[1] = "-" THEN 0 - digits.v ELSE digits.v]

\* parseInt(sizeStr, 8) || 0
sizeOf(sizeStr) ==
    LET r == parseInt8(sizeStr) IN IF r.nan THEN 0 ELSE r.value

\* Math.ceil(size / 512) * 512
ceilBlocks(size) == (0 - ((0 - size) \div BLOCK)) * BLOCK

startsWith(str, sub) == Len(str) >= Len(sub) /\ SubSeq(str, 1, Len(sub)) = sub

\* (a test of the start of the name only)
isSidecarAtStart(name) == startsWith(name, <<".", "_">>)

\* utils.ts:45, negated
isSidecar(name) ==
    includes(name, <<"/", ".", "_">>) \/ startsWith(name, <<".", "_">>)

\* what one iteration reads from its header block (utils.ts:13-38)
readHeader(header) ==
    LET nameEnd == scanEnd(header, 0, 100, {0})
        name0 == decode(subarray(header, 0, nameEnd))
        magic == decode(subarray(header, 257, 262))
        prefixEnd == scanEnd(header, 345, 500, {0})
        name == IF magic = <<"u", "s", "t", "a", "r">> /\ prefixEnd > 345
                THEN decode(subarray(header, 345, prefixEnd)) \o <<"/">> \o name0
                ELSE name0
        sizeStr == decode(subarray(header, 124, scanEnd(header, 124, 136, {0, 32})))
    IN [name |-> name, sizeStr |-> sizeStr, size |-> sizeOf(sizeStr),
        typeFlag |-> At(header, 156)]

\* utils.ts:43-45
isEmitted(h) ==
    /\ h.typeFlag = 0 \/ h.typeFlag = 48
    /\ h.size > 0
    /\ h.name # <<>>
    /\ ~isSidecar(h.name)

\* (the data with the padding of its last block)
fileDataWholeBlocks(data, offset, size) ==
    subarray(data, offset, offset + ceilBlocks(size))

\* data.slice(offset, offset + size)
fileData(data, offset, size) == subarray(data, offset, offset + size)

\* files.set(name, fileData)
mapSet(map, key, value) ==
    [k \in DOMAIN map \cup {key} |-> IF k = key THEN value ELSE map[k]]

NoHeader == [at |-> -1, name |-> <<>>, sizeStr |-> <<>>, size |-> 0, typeFlag |-> -1,
             emitted |-> FALSE]

\* ---- the archives given to parseTar ----

\* 11 octal digits, as a tar writer records a size
RECURSIVE octalDigits(_, _)
octalDigits(n, width) ==
    IF width = 0 THEN <<>>
    ELSE Append(octalDigits(n \div 8, width - 1),
                CHOOSE c \in OctalDigits : OctalValue(c) = n % 8)
octal11(n) == octalDigits(n, 11)

\* the bytes of a file: n bytes of the values 1, 2, ...
Bytes(n) == [i \in 1..n |-> i % 251]

nD == <<"D">>
nI == <<"I">>
nS == <<"S">>
nSidecar == <<".", "_", "A">>
nDirSidecar == <<"D", "/", ".", "_", "A">>
nDirA == <<"D", "/", "A">>

TypeFile == 48       \* '0'
TypeOldFile == 0
TypeDirectory == 53  \* '5'
TypePax == 120       \* 'x'

Entry(name, prefix, ustar, type, sizeStr, data) ==
    [name |-> name, prefix |-> prefix, ustar |-> ustar, type |-> type,
     sizeStr |-> sizeStr, data |-> data]

\* an entry as a tar writer makes it from a named buffer
FileEntry(name, prefix, ustar, type, data) ==
    Entry(name, prefix, ustar, type, octal11(Len(data)), data)

WrittenEntries ==
    { FileEntry(nA, <<>>, TRUE, TypeFile, Bytes(1)),
      FileEntry(nB, <<>>, FALSE, TypeOldFile, Bytes(BLOCK + 1)),
      FileEntry(nA, nD, TRUE, TypeFile, Bytes(2)),
      FileEntry(nI, <<>>, TRUE, TypeFile, <<>>),
      FileEntry(nD, <<>>, TRUE, TypeDirectory, <<>>),
      FileEntry(nSidecar, <<>>, TRUE, TypeFile, Bytes(1)),
      FileEntry(nDirSidecar, <<>>, TRUE, TypeFile, Bytes(1)),
      FileEntry(nS, <<>>, TRUE, TypePax, Bytes(1)) }

\* headers whose size field no tar writer makes: empty, not octal, signed
\* and a header without a name
MalformedEntries ==
    { Entry(nA, <<>>, TRUE, TypeFile, sizeStr, <<>>) :
          sizeStr \in {<<>>, <<"x">>, <<"-", "7">>, <<"-", "1", "0", "0", "0">>,
                       <<"-", "2", "0", "0", "0">>} }
    \cup { FileEntry(<<>>, <<>>, TRUE, TypeFile, Bytes(1)) }

EntryKinds == WrittenEntries \cup MalformedEntries

\* the header block of an entry: name, checksum field, size, type flag, magic
\* and prefix at their offsets, zero elsewhere
headerBlock(e) ==
    LET field(i, at, bytes) == i > at /\ i <= at + Len(bytes)
        sizeBytes == encode(e.sizeStr)
        nameBytes == encode(e.name)
        prefixBytes == encode(e.prefix)
        ustar == encode(<<"u", "s", "t", "a", "r">>)
    IN [i \in 1..BLOCK |->
          IF field(i, 0, nameBytes) THEN nameBytes[i]
          ELSE IF field(i, 124, sizeBytes) THEN sizeBytes[i - 124]
          ELSE IF i = 149 THEN 48
          ELSE IF i = 157 THEN e.type
          ELSE IF e.ustar /\ field(i, 257, ustar) THEN ustar[i - 257]
          ELSE IF e.ustar /\ field(i, 345, prefixBytes) THEN prefixBytes[i - 345]
          ELSE 0]

Zeros512(n) == [i \in 1..(n * BLOCK) |-> 0]

\* the data of an entry padded with zeros to whole blocks
dataBlocks(e) ==
    e.data \o [i \in 1..((BLOCK - (Len(e.data) % BLOCK)) % BLOCK) |-> 0]

RECURSIVE archiveOf(_)
archiveOf(entries) ==
    IF entries = <<>> THEN <<>>
    ELSE headerBlock(Head(entries)) \o dataBlocks(Head(entries))
         \o archiveOf(Tail(entries))

\* the zero blocks after the last entry: two as written, none when cut off
Trailers == {0, 2}

TarIdle ==
    /\ tarEntries = <<>>
    /\ tarData = <<>>
    /\ tarOffset = 0
    /\ tarFiles = <<>>
    /\ tarHeader = NoHeader
    /\ tPc = "idle"

\* the bytes missing at the end of an archive whose transfer broke off: all
\* of the last block but its first byte
CutBytes == {BLOCK - 1}

TarInit ==
    /\ tarEntries \in SeqsUpTo(EntryKinds, MaxEntries)
    /\ \/ \E trailer \in Trailers :
              tarData = archiveOf(tarEntries) \o Zeros512(trailer)
       \/ \E cut \in CutBytes :
              /\ Len(archiveOf(tarEntries)) > cut
              /\ tarData = SubSeq(archiveOf(tarEntries), 1,
                                  Len(archiveOf(tarEntries)) - cut)
    /\ tarOffset = 0
    /\ tarFiles = <<>>
    /\ tarHeader = NoHeader
    /\ tPc = "loop"

\* one iteration of the loop that reads a header which is not all zero
\* (utils.ts:6-53)
ParseTarHeader ==
    /\ tPc = "loop"
    /\ tarOffset < Len(tarData) - BLOCK
    /\ LET header == subarray(tarData, tarOffset, tarOffset + BLOCK)
           h == readHeader(header)
           emitted == isEmitted(h)
           dataAt == tarOffset + BLOCK
       IN /\ ~(\A b \in Range(header) : b = 0)
          /\ tarHeader' = [at |-> tarOffset, name |-> h.name, sizeStr |-> h.sizeStr,
                           size |-> h.size, typeFlag |-> h.typeFlag,
                           emitted |-> emitted]
          /\ tarFiles' = IF emitted
                         THEN mapSet(tarFiles, h.name, fileData(tarData, dataAt, h.size))
                         ELSE tarFiles
          /\ tarOffset' = dataAt + ceilBlocks(h.size)
    /\ UNCHANGED <<tarEntries, tarData, tPc, validatorVars, sourceVars, resolveVars, loaderVars,
                   fetchVars, listVars, sessionVars, sandboxVars>>

\* the iteration that reads an all-zero header and breaks (utils.ts:11)
ParseTarEndOfArchive ==
    /\ tPc = "loop"
    /\ tarOffset < Len(tarData) - BLOCK
    /\ \A b \in Range(subarray(tarData, tarOffset, tarOffset + BLOCK)) : b = 0
    /\ tPc' = "returned"
    /\ UNCHANGED <<tarEntries, tarData, tarOffset, tarFiles, tarHeader, validatorVars, sourceVars,
                   resolveVars, loaderVars, fetchVars, listVars, sessionVars,
                   sandboxVars>>

\* the loop condition fails (utils.ts:6)
ParseTarExhausted ==
    /\ tPc = "loop"
    /\ ~(tarOffset < Len(tarData) - BLOCK)
    /\ tPc' = "returned"
    /\ UNCHANGED <<tarEntries, tarData, tarOffset, tarFiles, tarHeader, validatorVars, sourceVars,
                   resolveVars, loaderVars, fetchVars, listVars, sessionVars,
                   sandboxVars>>

TarNext ==
    \/ ParseTarHeader
    \/ ParseTarEndOfArchive
    \/ ParseTarExhausted

---------------------------------------------------------------------------
(***************************************************************************)
(* Sandbox protocol: the runs of the controller (testVersion, testHelp,    *)
(* runLean), createFreshModule and runInIframe, the iframes they create,   *)
(* the window message listeners and the timeouts                           *)
(***************************************************************************)

MaxSandboxRuns == 2  \* runs started in one session
MaxLoads == 2        \* loadLean calls made in one session

\* the messages a sandbox posts that a listener acts on
SandboxMessages == {"iframe_ready", "library_received", "done", "error"}

\* the messages whose only effect is a line of output (App.tsx:177-180,
\* 238-241)
OutputMessages == {"stdout"}

\* the messages of a removed iframe that may still be dispatched
LateMessages == {"done", "error", "stdout"}

NoSandboxRun == [n |-> 0, pc |-> "idle", libraryFiles |-> 0]

NoLoad == [n |-> 0, pc |-> "idle"]

\* the last step dispatched neither a message nor a timeout
NoMessage == [iframe |-> 0, type |-> "", acted |-> FALSE]

\* the number that the listeners, timeouts and iframes of the k-th loadLean
\* call carry: the calls come before all runs, which are numbered from 1
loadId(k) == k - MaxLoads

To(type, n) == [dir |-> "to", type |-> type, run |-> n]
From(type) == [dir |-> "from", type |-> type, run |-> 0]

\* the message types of the iframe that a listener has acted on
Posted(iframe) == {m.type : m \in {x \in Range(iframe.log) : x.dir = "from"}}

SandboxIdle ==
    /\ hasSharedArrayBuffer = FALSE
    /\ wasmLoaded = FALSE
    /\ load = NoLoad
    /\ delivered = NoMessage
    /\ status = "idle"
    /\ error = ""
    /\ scriptRef = 0
    /\ moduleRef = 0
    /\ iframes = <<>>
    /\ listeners = {}
    /\ timers = {}
    /\ sbRun = NoSandboxRun

\* the state loadLean leaves when it has succeeded: its iframe is ready and
\* attached, its 120 s timeout is still to fire (App.tsx:358-365)
SandboxInit ==
    /\ hasSharedArrayBuffer = TRUE
    /\ wasmLoaded = TRUE
    /\ load = [n |-> MaxLoads, pc |-> "idle"]
    /\ delivered = [iframe |-> 1, type |-> "iframe_ready", acted |-> TRUE]
    /\ status = "ready"
    /\ error = ""
    /\ scriptRef = 1
    /\ moduleRef = 1
    /\ iframes = <<[createdBy |-> 0, attached |-> TRUE, log |-> <<From("iframe_ready")>>]>>
    /\ listeners = {}
    /\ timers = {[kind |-> "create", run |-> 0]}
    /\ sbRun = NoSandboxRun

\* the app as mounted (App.tsx:83-97), in a page that is cross-origin
\* isolated or is not
ControllerInit ==
    /\ hasSharedArrayBuffer \in BOOLEAN
    /\ wasmLoaded = FALSE
    /\ load = NoLoad
    /\ delivered = NoMessage
    /\ status = "idle"
    /\ error = ""
    /\ scriptRef = 0
    /\ moduleRef = 0
    /\ iframes = <<>>
    /\ listeners = {}
    /\ timers = {}
    /\ sbRun = NoSandboxRun

\* (a module creation that leaves the old iframe in the document)
removeOldKept(frames, ref) == frames

\* scriptRef.current.remove() (App.tsx:134-137)
removeOld(frames, ref) ==
    IF ref # 0 THEN [frames EXCEPT ![ref].attached = FALSE] ELSE frames

\* createFreshModule up to its return of the promise (App.tsx:128-207)
newModule(n) ==
    LET new == Len(iframes) + 1
    IN /\ iframes' = Append(removeOld(iframes, scriptRef),
                            [createdBy |-> n, attached |-> TRUE, log |-> <<>>])
       /\ scriptRef' = new
       /\ moduleRef' = 0
       /\ listeners' = listeners \cup {[kind |-> "create", run |-> n, iframe |-> new]}
       /\ timers' = timers \cup {[kind |-> "create", run |-> n]}

\* createFreshModule called by a run, and the run waiting for it
createFreshModule(n, libraryFiles) ==
    /\ newModule(n)
    /\ sbRun' = [n |-> n, pc |-> "creating", libraryFiles |-> libraryFiles]

\* catch and finally of a run (App.tsx:396-401, 460-465)
runCaught(text) ==
    /\ error' = text
    /\ status' = "ready"
    /\ sbRun' = [NoSandboxRun EXCEPT !.n = sbRun.n]

\* (a handler that forgets the failure)
runRejectedSilently(text) ==
    /\ status' = "ready"
    /\ sbRun' = [NoSandboxRun EXCEPT !.n = sbRun.n]
    /\ UNCHANGED error

\* the promise of runInIframe is rejected and the run resumes in its catch
runRejected(text) == runCaught(text)

\* the promise of runInIframe is resolved and the run ends (App.tsx:395, 459)
runResolved ==
    /\ status' = "ready"
    /\ sbRun' = [NoSandboxRun EXCEPT !.n = sbRun.n]
    /\ UNCHANGED error

\* (a catch that lets the controls of a loaded app appear)
loadCaughtReady(text) ==
    /\ error' = text
    /\ status' = "ready"
    /\ load' = [load EXCEPT !.pc = "idle"]
    /\ UNCHANGED <<hasSharedArrayBuffer, wasmLoaded>>

\* catch of loadLean (App.tsx:367-371)
loadCaught(text) ==
    /\ error' = text
    /\ status' = "error"
    /\ load' = [load EXCEPT !.pc = "idle"]
    /\ UNCHANGED <<hasSharedArrayBuffer, wasmLoaded>>

\* loadLean after await createFreshModule() (App.tsx:360-365)
loadSucceeded ==
    /\ wasmLoaded' = TRUE
    /\ status' = "ready"
    /\ load' = [load EXCEPT !.pc = "idle"]
    /\ UNCHANGED <<hasSharedArrayBuffer, error>>

otherThanSandbox ==
    <<resolveVars, loaderVars, fetchVars, listVars, sessionVars, codecVars>>

\* loadLean up to its first await (App.tsx:330-345); its buttons are there
\* while the status is 'idle' or 'error' (App.tsx:503-507, 547-551)
LoadLeanStarts ==
    /\ status \in {"idle", "error"}
    /\ load.n < MaxLoads
    /\ IF ~hasSharedArrayBuffer
       THEN /\ error' = "SharedArrayBuffer is not available"
            /\ status' = "error"
            /\ load' = [load EXCEPT !.n = @ + 1]
       ELSE /\ error' = ""
            /\ status' = "loading"
            /\ load' = [n |-> load.n + 1, pc |-> "checking"]
    /\ delivered' = NoMessage
    /\ UNCHANGED <<hasSharedArrayBuffer, wasmLoaded, scriptRef, moduleRef, iframes,
                   listeners, timers, sbRun, otherThanSandbox>>

\* the HEAD request for lean.js and the file list settle (App.tsx:345-355):
\* loadLean throws, or goes on to call createFreshModule (App.tsx:360)
LoadChecked(found) ==
    /\ load.pc = "checking"
    /\ IF found
       THEN /\ newModule(loadId(load.n))
            /\ load' = [load EXCEPT !.pc = "creating"]
            /\ UNCHANGED <<hasSharedArrayBuffer, wasmLoaded, status, error>>
       ELSE /\ loadCaught("Lean WASM files not found")
            /\ UNCHANGED <<scriptRef, moduleRef, iframes, listeners, timers>>
    /\ delivered' = NoMessage
    /\ UNCHANGED <<sbRun, otherThanSandbox>>

\* testVersion, testHelp or runLean called before the load has succeeded
\* (App.tsx:376-379, 407-410, 436-439)
RunNotLoaded ==
    /\ ~wasmLoaded
    /\ error' = "Lean WASM not loaded yet"
    /\ delivered' = NoMessage
    /\ UNCHANGED <<loadVars, status, scriptRef, moduleRef, iframes, listeners, timers,
                   sbRun, otherThanSandbox>>

\* testVersion / testHelp up to await createFreshModule() (App.tsx:375-390,
\* 406-419); the two differ in the argument they run the sandbox with
TestVersionOrHelp(kind) ==
    /\ wasmLoaded
    /\ status = "ready"
    /\ sbRun.n < MaxSandboxRuns
    /\ kind \in {"version", "help"}
    /\ status' = "running"
    /\ error' = ""
    /\ createFreshModule(sbRun.n + 1, 0)
    /\ delivered' = NoMessage
    /\ UNCHANGED <<loadVars, otherThanSandbox>>

\* runLean up to await loadAllOleans() (App.tsx:435-452)
RunLean ==
    /\ wasmLoaded
    /\ status = "ready"
    /\ sbRun.n < MaxSandboxRuns
    /\ status' = "running"
    /\ error' = ""
    /\ sbRun' = [n |-> sbRun.n + 1, pc |-> "loading", libraryFiles |-> 0]
    /\ delivered' = NoMessage
    /\ UNCHANGED <<loadVars, scriptRef, moduleRef, iframes, listeners, timers,
                   otherThanSandbox>>

\* loadAllOleans returns a map of size files and runLean calls
\* createFreshModule (App.tsx:452-455)
LibraryLoaded(size) ==
    /\ sbRun.pc = "loading"
    /\ createFreshModule(sbRun.n, size)
    /\ delivered' = NoMessage
    /\ UNCHANGED <<loadVars, status, error, otherThanSandbox>>

\* loadAllOleans rejects (App.tsx:460-465)
LibraryFails ==
    /\ sbRun.pc = "loading"
    /\ runCaught("library")
    /\ delivered' = NoMessage
    /\ UNCHANGED <<loadVars, scriptRef, moduleRef, iframes, listeners, timers,
                   otherThanSandbox>>

\* (listeners that do not look at the source of the event)
acceptingAny(i) == listeners

\* the listeners of this window that accept a message of iframe i:
\* event.source is iframe.contentWindow (App.tsx:154, 225), which is null
\* once the iframe is removed
accepting(i) == {l \in listeners : l.iframe = i /\ iframes[i].attached}

\* (a removal that removes nothing)
removeEventListenerNot(ls, gone) == ls

\* window.removeEventListener('message', handler)
removeEventListener(ls, gone) == ls \ gone

\* the createFreshModule promise that the run, or loadLean, is waiting for is
\* the one of a listener among ls
runAwaits(ls) == sbRun.pc = "creating" /\ \E l \in ls : l.run = sbRun.n
loadAwaits(ls) == load.pc = "creating" /\ \E l \in ls : l.run = loadId(load.n)

\* the promise of createFreshModule is rejected (App.tsx:184, 204)
createRejected(ls, text) ==
    IF runAwaits(ls) THEN runCaught(text) /\ UNCHANGED loadVars
    ELSE IF loadAwaits(ls) THEN loadCaught(text) /\ UNCHANGED sbRun
    ELSE UNCHANGED <<sbRun, status, error, loadVars>>

\* iframe i posts a message and the listeners of the window run
\* (App.tsx:153-190, 224-246); a message that no listener accepts, or of a
\* type the accepting listener has no branch for, changes nothing
SandboxPosts(i, type) ==
    /\ i \in DOMAIN iframes
    /\ LET posted == [iframes EXCEPT ![i].log = Append(@, From(type))]
           creates == {l \in accepting(i) : l.kind = "create"}
           runs == {l \in accepting(i) : l.kind = "run"}
           acted == [iframe |-> i, type |-> type, acted |-> TRUE]
           fresh == type \in SandboxMessages \ Posted(iframes[i])
       IN \/ /\ creates # {} /\ type = "iframe_ready" /\ fresh
             /\ delivered' = acted
             /\ moduleRef' = 1
             /\ listeners' = removeEventListener(listeners, creates)
             /\ iframes' = posted
             /\ IF runAwaits(creates)
                THEN /\ sbRun' = [sbRun EXCEPT !.pc = "delay"]
                     /\ timers' = timers \cup {[kind |-> "delay", run |-> sbRun.n]}
                     /\ UNCHANGED <<status, error, loadVars>>
                ELSE IF loadAwaits(creates)
                THEN loadSucceeded /\ UNCHANGED <<sbRun, timers>>
                ELSE UNCHANGED <<sbRun, timers, status, error, loadVars>>
             /\ UNCHANGED scriptRef
          \/ /\ creates # {} /\ type = "error" /\ fresh
             /\ delivered' = acted
             /\ listeners' = removeEventListener(listeners, creates)
             /\ iframes' = posted
             /\ createRejected(creates, "sandbox")
             /\ UNCHANGED <<scriptRef, moduleRef, timers>>
          \/ /\ runs # {} /\ type = "library_received" /\ fresh
             /\ delivered' = acted
             /\ iframes' = [posted EXCEPT ![i].log =
                               Append(@, To("start", (CHOOSE l \in runs : TRUE).run))]
             /\ UNCHANGED <<status, error, scriptRef, moduleRef, listeners, timers,
                            sbRun, loadVars>>
          \/ /\ runs # {} /\ type = "done" /\ fresh
             /\ delivered' = acted
             /\ listeners' = removeEventListener(listeners, runs)
             /\ iframes' = posted
             /\ IF sbRun.pc = "executing" /\ \E l \in runs : l.run = sbRun.n
                THEN runResolved
                ELSE UNCHANGED <<sbRun, status, error>>
             /\ UNCHANGED <<scriptRef, moduleRef, timers, loadVars>>
          \/ /\ runs # {} /\ type = "error" /\ fresh
             /\ delivered' = acted
             /\ listeners' = removeEventListener(listeners, runs)
             /\ iframes' = posted
             /\ IF sbRun.pc = "executing" /\ \E l \in runs : l.run = sbRun.n
                THEN runRejected("sandbox")
                ELSE UNCHANGED <<sbRun, status, error>>
             /\ UNCHANGED <<scriptRef, moduleRef, timers, loadVars>>
          \/ /\ creates \cup runs # {} /\ type \in OutputMessages
             /\ delivered' = acted
             /\ UNCHANGED <<status, error, scriptRef, moduleRef, iframes, listeners,
                            timers, sbRun, loadVars>>
    /\ UNCHANGED otherThanSandbox

\* a message that an iframe posted before it was removed is dispatched
\* afterwards and no listener accepts it (App.tsx:154, 225): nothing changes
SandboxPostsLate(i, type) ==
    /\ i \in DOMAIN iframes
    /\ ~iframes[i].attached
    /\ accepting(i) = {}
    /\ delivered' = [iframe |-> i, type |-> type, acted |-> FALSE]
    /\ UNCHANGED <<status, error, scriptRef, moduleRef, iframes, listeners,
                   timers, sbRun, loadVars, otherThanSandbox>>

\* the place of a 120 s timeout in the order the timeouts were set in: the
\* one of createFreshModule before the one of runInIframe of the same run
armed(t) == 2 * t.run + (IF t.kind = "run" THEN 1 ELSE 0)

\* timeouts of the same length fire in the order they were set in
\* (App.tsx:206, 290: both 120000)
isDue(t) ==
    \A u \in timers : u.kind \in {"create", "run"} => armed(t) <= armed(u)

\* (a timeout that removes whatever listener of its kind there is)
handlerOfKind(t) == {l \in listeners : l.kind = t.kind}

\* the listener that the callback of the timeout holds (App.tsx:203, 287)
handlerOf(t) == {l \in listeners : l.kind = t.kind /\ l.run = t.run}

\* a 120 s timeout fired; acted: it rejected a promise that was pending
TimedOut(acted) == [iframe |-> 0, type |-> "timeout", acted |-> acted]

\* the 120 s timeout of a createFreshModule call fires (App.tsx:201-206)
CreateTimeout(t) ==
    /\ t \in timers
    /\ t.kind = "create"
    /\ isDue(t)
    /\ timers' = timers \ {t}
    /\ IF moduleRef = 0
       THEN /\ listeners' = removeEventListener(listeners, handlerOf(t))
            /\ createRejected({t}, "Iframe initialization timeout")
       ELSE UNCHANGED <<listeners, sbRun, status, error, loadVars>>
    /\ delivered' = TimedOut(moduleRef = 0 /\ (runAwaits({t}) \/ loadAwaits({t})))
    /\ UNCHANGED <<scriptRef, moduleRef, iframes, otherThanSandbox>>

\* (a start sent together with the library)
startAfterLibraryAtOnce(log, n) == Append(log, To("start", n))

\* after load_library nothing more is sent until library_received
\* (App.tsx:271-279)
startAfterLibrary(log, n) == log

\* the 150 ms delay of the run ends and runInIframe runs up to its return of
\* the promise (App.tsx:211-291); thrown: postMessage of the library throws
DelayElapsed(thrown) ==
    /\ [kind |-> "delay", run |-> sbRun.n] \in timers
    /\ sbRun.pc = "delay"
    /\ LET i == scriptRef
           n == sbRun.n
           delayed == timers \ {[kind |-> "delay", run |-> n]}
       IN IF i = 0 \/ ~iframes[i].attached
          THEN /\ timers' = delayed
               /\ runCaught("Iframe not ready")
               /\ UNCHANGED <<iframes, listeners>>
          ELSE /\ listeners' = listeners \cup {[kind |-> "run", run |-> n, iframe |-> i]}
               /\ timers' = delayed \cup {[kind |-> "run", run |-> n]}
               /\ sbRun' = [sbRun EXCEPT !.pc = "executing"]
               /\ LET configured == Append(iframes[i].log, To("configure", n))
                  IN iframes' =
                       [iframes EXCEPT ![i].log =
                          IF sbRun.libraryFiles > 0
                          THEN IF thrown THEN configured
                               ELSE startAfterLibrary(
                                        Append(configured, To("load_library", n)), n)
                          ELSE Append(configured, To("start", n))]
               /\ UNCHANGED <<status, error>>
    /\ thrown => sbRun.libraryFiles > 0
    /\ delivered' = NoMessage
    /\ UNCHANGED <<loadVars, scriptRef, moduleRef, otherThanSandbox>>

\* the 120 s timeout of a runInIframe call fires (App.tsx:286-290)
RunTimeout(t) ==
    /\ t \in timers
    /\ t.kind = "run"
    /\ isDue(t)
    /\ timers' = timers \ {t}
    /\ listeners' = removeEventListener(listeners, handlerOf(t))
    /\ IF sbRun.pc = "executing" /\ sbRun.n = t.run
       THEN runRejected("Lean execution timeout")
       ELSE UNCHANGED <<sbRun, status, error>>
    /\ delivered' = TimedOut(sbRun.pc = "executing" /\ sbRun.n = t.run)
    /\ UNCHANGED <<loadVars, scriptRef, moduleRef, iframes, otherThanSandbox>>

\* the runs of a loaded app
RunsNext ==
    \/ \E kind \in {"version", "help"} : TestVersionOrHelp(kind)
    \/ RunLean
    \/ \E size \in {0, 1} : LibraryLoaded(size)
    \/ LibraryFails
    \/ \E i \in DOMAIN iframes, type \in SandboxMessages \cup OutputMessages :
           SandboxPosts(i, type)
    \/ \E t \in timers : CreateTimeout(t)
    \/ \E thrown \in BOOLEAN : DelayElapsed(thrown)
    \/ \E t \in timers : RunTimeout(t)

SandboxNext ==
    \/ RunsNext
    \/ \E i \in DOMAIN iframes, type \in LateMessages : SandboxPostsLate(i, type)

\* the app from its mount on
ControllerNext ==
    \/ LoadLeanStarts
    \/ \E found \in BOOLEAN : LoadChecked(found)
    \/ RunNotLoaded
    \/ RunsNext

---------------------------------------------------------------------------
(***************************************************************************)
(* Import analyzer: parseUserImports and detectImplicitImports, each       *)
(* called once on a source text                                            *)
(***************************************************************************)

MaxLines == 2        \* lines of the source text

nPrelude == <<"p", "r", "e", "l", "u", "d", "e">>

wImport == <<"i", "m", "p", "o", "r", "t">>
wPublic == <<"p", "u", "b", "l", "i", "c">>
wMeta == <<"m", "e", "t", "a">>
wComment == <<"-", "-">>
SP == <<" ">>

\* the lines with import statements and their near misses: with each
\* modifier, with both, with both in the wrong order, in a comment, with
\* tabs, doubled blanks and a carriage return, without a blank, without a
\* name, with a second name, with a modifier and no name, after another
\* word, and with a doubled modifier
ImportLines ==
    { wPublic \o SP \o wImport \o SP \o <<"A">>,
      wMeta \o SP \o wImport \o SP \o <<"A">>,
      wPublic \o <<" ", "\t">> \o wMeta \o SP \o wImport \o SP \o <<"B">>,
      wMeta \o SP \o wPublic \o SP \o wImport \o SP \o <<"A">>,
      wComment \o SP \o wImport \o SP \o <<"A">>,
      <<"\t">> \o wImport \o <<" ", " ">> \o <<"A", ".", "B">> \o <<" ", "\r">>,
      wImport \o <<"A">>,
      wImport \o SP,
      wImport \o SP \o <<"A">> \o SP \o <<"B">>,
      wPublic \o SP \o wImport,
      <<"x">> \o SP \o wImport \o SP \o <<"A">>,
      wPublic \o SP \o wPublic \o SP \o wImport \o SP \o <<"A">> }

\* the lines the source texts are made of: an import, the marker alone,
\* indented, in a comment, inside an identifier, capitalised, cut short, an
\* empty line, and the import lines above
SourceLines ==
    ImportLines \cup
    { <<"i", "m", "p", "o", "r", "t", " ", "A">>,
      nPrelude,
      <<" ", " ">> \o nPrelude,
      <<"-", "-", " ">> \o nPrelude,
      <<"x">> \o nPrelude \o <<"s">>,
      <<"P", "r", "e", "l", "u", "d", "e">>,
      <<"p", "r", "e", "l", "u", "d">>,
      <<>> }

\* the lines joined by line feeds
RECURSIVE joinLines(_)
joinLines(lines) ==
    IF lines = <<>> THEN <<>>
    ELSE IF Len(lines) = 1 THEN lines[1]
    ELSE lines[1] \o <<"\n">> \o joinLines(Tail(lines))

\* (an analyzer that has no opt-out)
detectImplicitImportsAlways(text) == <<nInit>>

\* lean-loader.ts:59-70
detectImplicitImports(text) ==
    IF ~includes(text, nPrelude) THEN <<nInit>> ELSE <<>>

\* code.split('\n'), lean-loader.ts:41
RECURSIVE split(_, _)
split(text, line) ==
    IF text = <<>> THEN <<line>>
    ELSE IF Head(text) = "\n" THEN <<line>> \o split(Tail(text), <<>>)
    ELSE split(Tail(text), Append(line, Head(text)))

\* the characters of the texts that \s and trim() take for white space
isSpace(c) == c \in {" ", "\t", "\r", "\n"}

\* line.trim(), lean-loader.ts:44
RECURSIVE trimStart(_)
trimStart(s) ==
    IF s # <<>> /\ isSpace(Head(s)) THEN trimStart(Tail(s)) ELSE s

RECURSIVE trimEnd(_)
trimEnd(s) ==
    IF s # <<>> /\ isSpace(s[Len(s)]) THEN trimEnd(SubSeq(s, 1, Len(s) - 1)) ELSE s

trim(s) == trimEnd(trimStart(s))

\* the first position from p on that holds no white space, Len(s) + 1 if none
RECURSIVE skipSpaces(_, _)
skipSpaces(s, p) ==
    IF p <= Len(s) /\ isSpace(s[p]) THEN skipSpaces(s, p + 1) ELSE p

\* the first position from p on that holds white space, Len(s) + 1 if none
RECURSIVE skipWord(_, _)
skipWord(s, p) ==
    IF p <= Len(s) /\ ~isSpace(s[p]) THEN skipWord(s, p + 1) ELSE p

\* word\s+ matched at p: the position after it, 0 for no match
wordSpaces(s, p, word) ==
    IF /\ p + Len(word) <= Len(s)
       /\ SubSeq(s, p, p + Len(word) - 1) = word
       /\ isSpace(s[p + Len(word)])
    THEN skipSpaces(s, p + Len(word))
    ELSE 0

\* (a group that is never taken)
optionalNever(s, p, word) == <<p>>

\* (?:word\s+)? at p: the positions the matcher goes on from, the greedy
\* one first
optional(s, p, word) ==
    IF wordSpaces(s, p, word) # 0 THEN <<wordSpaces(s, p, word), p>> ELSE <<p>>

\* import\s+(\S+) at p: the capture in a list, the empty list for no match
importAt(s, p) ==
    LET q == wordSpaces(s, p, wImport)
    IN IF q # 0 /\ q <= Len(s)
       THEN <<SubSeq(s, q, skipWord(s, q) - 1)>>
       ELSE <<>>

\* the first match among the positions tried in order
RECURSIVE firstMatch(_, _)
firstMatch(s, starts) ==
    IF starts = <<>> THEN <<>>
    ELSE IF importAt(s, Head(starts)) # <<>> THEN importAt(s, Head(starts))
    ELSE firstMatch(s, Tail(starts))

RECURSIVE flatten(_)
flatten(lists) ==
    IF lists = <<>> THEN <<>> ELSE Head(lists) \o flatten(Tail(lists))

\* trimmed.match(/^(?:public\s+)?(?:meta\s+)?import\s+(\S+)/), lean-loader.ts:50:
\* importMatch[1] in a list, the empty list for null
importMatch(trimmed) ==
    LET afterPublic == optional(trimmed, 1, wPublic)
        afterMeta == flatten([i \in 1..Len(afterPublic) |->
                                 optional(trimmed, afterPublic[i], wMeta)])
    IN firstMatch(trimmed, afterMeta)

\* lean-loader.ts:39-57
parseUserImports(text) ==
    LET lines == split(text, <<>>)
    IN flatten([i \in 1..Len(lines) |->
                   IF startsWith(trim(lines[i]), wComment) THEN <<>>
                   ELSE importMatch(trim(lines[i]))])

SourceIdle ==
    /\ codeLines = <<>>
    /\ code = <<>>
    /\ implicitFound = <<>>
    /\ dPc = "idle"
    /\ explicitFound = <<>>
    /\ pPc = "idle"

SourceInit ==
    /\ codeLines \in SeqsUpTo(SourceLines, MaxLines)
    /\ code = joinLines(codeLines)
    /\ implicitFound = <<>>
    /\ dPc = "called"
    /\ explicitFound = <<>>
    /\ pPc = "called"

DetectImplicitImports ==
    /\ dPc = "called"
    /\ implicitFound' = detectImplicitImports(code)
    /\ dPc' = "returned"
    /\ UNCHANGED <<codeLines, code, explicitFound, pPc, validatorVars, tarVars, resolveVars,
                   loaderVars, fetchVars, listVars, sessionVars, sandboxVars>>

ParseUserImports ==
    /\ pPc = "called"
    /\ explicitFound' = parseUserImports(code)
    /\ pPc' = "returned"
    /\ UNCHANGED <<codeLines, code, implicitFound, dPc, validatorVars, tarVars, resolveVars,
                   loaderVars, fetchVars, listVars, sessionVars, sandboxVars>>

SourceNext == DetectImplicitImports \/ ParseUserImports

---------------------------------------------------------------------------
(* Specifications: each runs one component and holds the others idle *)

InitResolve ==
    ResolveInit /\ LoaderIdle /\ FetchIdle /\ ListingIdle /\ SessionIdle
    /\ ValidatorIdle /\ TarIdle /\ SourceIdle /\ SandboxIdle
SpecResolve == InitResolve /\ [][ResolveNext]_vars

InitManifest ==
    ResolveIdle /\ LoaderIdle /\ FetchIdle /\ ListingIdle /\ SessionIdle
    /\ ValidatorIdle /\ TarIdle /\ SourceIdle /\ SandboxIdle
SpecManifest == InitManifest /\ [][ManifestNext]_vars

InitFetch ==
    ResolveIdle /\ LoaderIdle /\ FetchInit /\ ListingIdle /\ SessionIdle
    /\ ValidatorIdle /\ TarIdle /\ SourceIdle /\ SandboxIdle
SpecFetch == InitFetch /\ [][FetchNext]_vars

InitListing ==
    ResolveIdle /\ LoaderIdle /\ FetchIdle /\ ListingInit /\ SessionIdle
    /\ ValidatorIdle /\ TarIdle /\ SourceIdle /\ SandboxIdle
SpecListing == InitListing /\ [][ListingNext]_vars

InitSession ==
    ResolveIdle /\ LoaderIdle /\ SessionInit
    /\ ValidatorIdle /\ TarIdle /\ SourceIdle /\ SandboxIdle
SpecSession == InitSession /\ [][SessionNext]_vars

InitSource ==
    ResolveIdle /\ LoaderIdle /\ FetchIdle /\ ListingIdle /\ SessionIdle
    /\ ValidatorIdle /\ TarIdle /\ SourceInit /\ SandboxIdle
SpecSource == InitSource /\ [][SourceNext]_vars

InitSandbox ==
    ResolveIdle /\ LoaderIdle /\ FetchIdle /\ ListingIdle /\ SessionIdle
    /\ ValidatorIdle /\ TarIdle /\ SourceIdle /\ SandboxInit
SpecSandbox == InitSandbox /\ [][SandboxNext]_vars

InitController ==
    ResolveIdle /\ LoaderIdle /\ FetchIdle /\ ListingIdle /\ SessionIdle
    /\ ValidatorIdle /\ TarIdle /\ SourceIdle /\ ControllerInit
SpecController == InitController /\ [][ControllerNext]_vars

InitTar ==
    ResolveIdle /\ LoaderIdle /\ FetchIdle /\ ListingIdle /\ SessionIdle
    /\ ValidatorIdle /\ TarInit /\ SourceIdle /\ SandboxIdle
SpecTar == InitTar /\ [][TarNext]_vars

InitValidator ==
    ResolveIdle /\ LoaderIdle /\ FetchIdle /\ ListingIdle /\ SessionIdle
    /\ ValidatorInit /\ TarIdle /\ SourceIdle /\ SandboxIdle
SpecValidator == InitValidator /\ [][ValidatorNext]_vars

---------------------------------------------------------------------------
(* Properties of the fetch orchestrator *)

\* the bytes are an artifact header: at least 32 bytes, starting 6f 6c 65 61
HasOleanHeader(b) == Len(b) >= 32 /\ SubSeq(b, 1, 4) = <<111, 108, 101, 97>>

\* the paths of the list whose request returns OK with bytes that are valid
RetrievableValid ==
    {p \in Range(paths) : server[p].kind = "ok" /\ HasOleanHeader(server[p].body)}

InFlight == pool.awaiting[pPrimary] + pool.awaiting[pServer] + pool.awaiting[pPrivate]

\* some path of the list is one the server fails on: a non-OK response, a
\* network error or invalid bytes
SomeFailure ==
    \E p \in Range(paths) :
        \/ server[p].kind \in {"not_ok", "network_error"}
        \/ server[p].kind = "ok" /\ ~HasOleanHeader(server[p].body)

\* C5: the map fetchOleanFiles returns has key p exactly when p is in the
\* list, the request for p returned OK and the bytes are valid; the value is
\* the bytes the server returned. While the call runs the map holds nothing
\* else.
C5_FilesAreRetrievableValid ==
    /\ DOMAIN files \subseteq RetrievableValid
    /\ \A p \in DOMAIN files : files[p] = server[p].body
    /\ fPc = "resolved" => DOMAIN files = RetrievableValid

\* C5 witness: a call has resolved over a list that mixes a retrievable valid
\* path with a path that is OK but invalid and a path that is not retrievable.
C5_Witness ==
    /\ fPc = "resolved"
    /\ DOMAIN files # {}
    /\ \E p \in Range(paths) : server[p].kind = "ok" /\ p \notin DOMAIN files
    /\ \E p \in Range(paths) : server[p].kind \in {"not_ok", "network_error"}

\* C6: the k-th onProgress call reports loaded = k and total = the length of
\* the list, whatever the outcome of the attempt; there are never more than
\* total calls and, when the call resolves, exactly total.
C6_ProgressCountsEveryAttempt ==
    /\ Len(progress) = loaded
    /\ Len(progress) <= Len(paths)
    /\ \A k \in 1..Len(progress) : progress[k] = <<k, Len(paths)>>
    /\ fPc # "called" => Len(progress) + InFlight + Len(pool.queue) = Len(paths)
    /\ fPc = "resolved" => Len(progress) = Len(paths)

\* C6 witness: a call over more paths than workers has resolved, with
\* attempts that succeeded, were rejected by validation and missed.
C6_Witness ==
    /\ fPc = "resolved"
    /\ Len(paths) > concurrency
    /\ Len(progress) = Len(paths)
    /\ DOMAIN files # {}
    /\ \E p \in Range(paths) : server[p].kind = "ok" /\ p \notin DOMAIN files
    /\ \E p \in Range(paths) : server[p].kind \in {"not_ok", "network_error"}

\* C7: at every moment of a fetchOleanFiles call at most 20 artifact requests
\* are in flight, whatever the length of the list.
C7_AtMostTwentyInFlight == InFlight <= 20

\* C7 witness: 20 requests are in flight while the queue still holds a path.
C7_Witness == InFlight = 20 /\ Len(pool.queue) > 0

\* C8: every entry of the list is requested at most once, exactly once when
\* the call resolves; an entry not yet requested is still in the queue; no
\* worker takes an entry from an empty queue.
C8_EachEntryRequestedOnce ==
    /\ ~pool.undefinedTaken
    /\ \A i \in 1..Len(pool.requested) :
          /\ pool.requested[i] <= 1
          /\ pool.requested[i] = 0 => i \in Range(pool.queue)
    /\ fPc = "resolved" =>
          /\ Len(pool.requested) = Len(paths)
          /\ \A i \in 1..Len(paths) : pool.requested[i] = 1

\* C8 witness: a call over more paths than workers has resolved, so that a
\* worker came back to the queue after its first request.
C8_Witness ==
    /\ fPc = "resolved"
    /\ Len(paths) > concurrency
    /\ \A i \in 1..Len(paths) : pool.requested[i] = 1

\* C9: a fetchOleanFiles call is never rejected, whatever the server does
\* with a path; the batch goes on (while it runs and no request hangs, a
\* request is in flight or every worker has returned), and when it resolves
\* every entry has been attempted and the files are the retrievable valid
\* ones.
C9_FailuresNeverReject ==
    /\ fPc # "rejected"
    /\ (fPc = "running" /\ \A p \in FetchPaths : pool.awaiting[p] > 0 => server[p].kind # "never")
          => (InFlight > 0 \/ pool.workersDone = concurrency)
    /\ fPc = "resolved" => loaded = Len(paths) /\ DOMAIN files = RetrievableValid

\* C9 witness: a call has resolved with a file although a primary path and a
\* variant path of its list failed, one by a network error.
C9_Witness ==
    /\ fPc = "resolved"
    /\ DOMAIN files # {}
    /\ SomeFailure
    /\ \E p \in Range(paths) : server[p].kind = "network_error"
    /\ \E p \in Range(paths) \ DOMAIN files : ~includes(p, sfxOlean \o <<".">>)
    /\ \E p \in Range(paths) \ DOMAIN files : includes(p, sfxOlean \o <<".">>)

\* C10: the wait for a fetch batch in flight always ends, also when one of
\* its requests never completes: while the batch runs there is a step left
\* to take (a request settles, the workers have all returned, or a timeout
\* rejects the batch).
C10_BatchWaitEnds == fPc = "running" => ENABLED FetchNext

\* the map of a call whose requests complete one after the other in the
\* order of the list: fetchOne's handling of each response, entry by entry
RECURSIVE filesInListOrder(_, _, _, _)
filesInListOrder(list, srv, n, acc) ==
    IF list = <<>> THEN acc
    ELSE LET path == Head(list)
             next == IF srv[path].kind = "ok" /\ isValidOlean(srv[path].body)
                     THEN (fileKey(path, n + 1) :> srv[path].body) @@ acc ELSE acc
         IN filesInListOrder(Tail(list), srv, n + 1, next)

\* C18: for a fixed path list and fixed responses per path, the map that
\* fetchOleanFiles resolves with is the same whatever order the requests
\* complete in: it is the map of the run that completes them in list order.
C18_SameMapForEveryOrder ==
    fPc = "resolved" => files = filesInListOrder(paths, server, 0, <<>>)

\* C18 witness: a resolved call in which a request completed before the
\* request of a path listed earlier, with a file in the map and a path left
\* out of it.
C18_Witness ==
    /\ fPc = "resolved"
    /\ pool.overtaken
    /\ DOMAIN files # {}
    /\ Range(paths) \ DOMAIN files # {}

---------------------------------------------------------------------------
(* Properties of the manifest loader *)

Fulfilled == {r \in 1..Len(requests) : requests[r] = "fulfilled"}

\* C3: however the loadManifest calls interleave with the request, at most
\* one request for the manifest is ever issued, exactly one once a call has
\* been made; when it succeeds no caller is rejected and every caller that
\* has resumed holds the one object the response was parsed to, which is the
\* object in manifest.
C3_OneRequestOneObject ==
    /\ Len(requests) <= 1
    /\ (\E c \in Callers : callers[c].state # "idle") => Len(requests) = 1
    /\ Fulfilled # {} =>
          /\ manifest \in Fulfilled
          /\ \A c \in Callers :
                /\ callers[c].state # "rejected"
                /\ callers[c].state = "resolved" => callers[c].value = manifest

\* C3 witness: three callers have resumed with the manifest: one issued the
\* request, one called while it was in flight, one called after it completed.
C3_Witness ==
    /\ \A c \in Callers : callers[c].state = "resolved"
    /\ \E c \in Callers : callers[c].issued
    /\ \E c \in Callers : ~callers[c].issued /\ callers[c].promise # 0
    /\ \E c \in Callers : callers[c].promise = 0

\* C4: a loadManifest call made after an earlier call has failed issues a new
\* network request (the loader is retryable), and resolves with the manifest
\* when that request succeeds.
C4_RetryAfterFailure ==
    \A c \in Callers :
        callers[c].afterFailure =>
            /\ callers[c].issued
            /\ requests[callers[c].promise] = "fulfilled" =>
                   callers[c].state \in {"awaiting", "resolved"}

---------------------------------------------------------------------------
(* Properties of the resolver *)

\* the imports of m in the manifest, less the values in skip
Imports(mods, m, skip) == IF m \in DOMAIN mods THEN Range(mods[m]) \ skip ELSE {}

\* the names reachable from S through Imports (S included)
RECURSIVE ReachableFrom(_, _, _)
ReachableFrom(S, mods, skip) ==
    LET next == S \cup UNION {Imports(mods, m, skip) : m \in S}
    IN IF next = S THEN S ELSE ReachableFrom(next, mods, skip)

Seeds == Range(explicitImports) \cup Range(implicitImports)

\* m lies on an import cycle
OnCycle(m) == m \in ReachableFrom(Imports(modules, m, {nAll}), modules, {nAll})

\* every name of S is in allModules and, once the paths are returned, its
\* primary artifact path is among oleanPaths
Resolved(S) ==
    /\ aPc \in {"paths", "done"} => S \subseteq Range(analysis.allModules)
    /\ aPc = "done" =>
          \A m \in S : (replaceDots(m) \o sfxOlean) \in Range(analysis.oleanPaths)

\* C1 as stated: once the analysis has resolved, every module name reachable
\* from a seed through the manifest's imports lists is in allModules (and its
\* path among the returned paths).
C1_AllReachableResolved == Resolved(ReachableFrom(Seeds, modules, {}))

\* C1 amended: once the analysis has resolved, every module name reachable
\* from a seed through the manifest's imports lists, not following the
\* imports value 'all', is in allModules (and its path among the returned
\* paths); cycles and a cache reused by a later seed do not change that.
C1_ReachableExceptAllResolved == Resolved(ReachableFrom(Seeds, modules, {nAll}))

\* C1 witness: a resolved analysis of two seeds over a cyclic import graph in
\* which the later seed was answered from the cache the earlier seed filled and
\* a module that is no seed was reached.
C1_Witness ==
    /\ aPc = "done"
    /\ Len(analysis.traversals) = 2
    /\ analysis.traversals[2].hits # {}
    /\ \E m \in DOMAIN modules : OnCycle(m) /\ m \in Range(analysis.allModules)
    /\ Range(analysis.allModules) \ Seeds # {}

\* C2: getTransitiveDeps terminates on every manifest, cyclic ones included:
\* in one traversal no module's imports list is expanded more than once, the
\* calls never nest deeper than the number of manifest modules plus one, and
\* in a mutual cycle A -> B -> A the closure of A contains B.
C2_TraversalTerminates ==
    aPc \in {"paths", "done"} =>
        \A i \in 1..Len(analysis.traversals) :
            LET t == analysis.traversals[i] IN
            /\ ~t.overflow
            /\ t.deepest <= Cardinality(DOMAIN modules) + 1
            /\ \A m \in DOMAIN t.expanded : t.expanded[m] <= 1
            /\ \A b \in Imports(modules, t.seed, {nAll}) :
                   t.seed \in Imports(modules, b, {nAll}) => b \in t.deps

\* C2 witness: a finished traversal that started on a module A of a mutual
\* cycle A -> B -> A, expanded both and returned B.
C2_Witness ==
    /\ aPc = "done"
    /\ \E i \in 1..Len(analysis.traversals) :
          LET t == analysis.traversals[i] IN
          /\ t.seed \in DOMAIN modules
          /\ t.seed \in DOMAIN t.expanded
          /\ t.expanded[t.seed] = 1
          /\ \E b \in Imports(modules, t.seed, {nAll}) :
                 /\ b # t.seed
                 /\ t.seed \in Imports(modules, b, {nAll})
                 /\ b \in t.deps
                 /\ b \in DOMAIN t.expanded
                 /\ t.expanded[b] = 1

\* s is in strictly ascending order of UTF-16 code units
StrictlyAscending(s) == \A i \in 1..(Len(s) - 1) : StrLess(s[i], s[i + 1])

Count(x, s) == Cardinality({i \in 1..Len(s) : s[i] = x})

\* the names a seed or the imports list of a reached module gives (imports
\* values in skip not followed) that have no entry in the manifest
AbsentNamed(skip) == ReachableFrom(Seeds, modules, skip) \ DOMAIN modules

\* each name of S is once in allModules, no traversal of the call gave it
\* dependencies, and the traversal that started on it returned none
RecordedAsLeaf(S) ==
    aPc \in {"paths", "done", "again"} =>
        /\ \A n \in S : Count(n, analysis.allModules) = 1
        /\ \A n \in S : n \notin DOMAIN analysis.cache
        /\ \A i \in 1..Len(analysis.traversals) :
               LET t == analysis.traversals[i] IN
               t.seed \notin DOMAIN modules =>
                   /\ t.deps = {}
                   /\ ~t.overflow
                   /\ t.expanded = <<>>

Candidates(b) == {b \o sfxOlean, b \o sfxServer, b \o sfxPrivate}

\* the base path of Init.Data.String, written out
baseInitDataString == <<"I", "n", "i", "t", "/", "D", "a", "t", "a", "/",
                        "S", "t", "r", "i", "n", "g">>

\* the module name m with '/' for every '.', character by character
SlashFor(m) ==
    [i \in 1..Len(m) |-> CASE m[i] = "." -> "/" [] OTHER -> m[i]]

\* C13: the path list returned for the resolved module set M holds exactly
\* the paths base(m).olean, base(m).olean.private and base(m).olean.server of
\* the modules m of M, base(m) being m with every '.' replaced by '/': three
\* per module, none besides. For the single module Init.Data.String without
\* imports the list is Init/Data/String.olean, Init/Data/String.olean.private,
\* Init/Data/String.olean.server.
C13_ThreeCandidatesPerModule ==
    aPc \in {"done", "again"} =>
        /\ Range(analysis.oleanPaths) =
               UNION {Candidates(SlashFor(m)) : m \in Range(analysis.allModules)}
        /\ Len(analysis.oleanPaths) = 3 * Len(analysis.allModules)
        /\ analysis.allModules = <<nInitDataString>> =>
               analysis.oleanPaths = <<baseInitDataString \o sfxOlean,
                                       baseInitDataString \o sfxPrivate,
                                       baseInitDataString \o sfxServer>>

\* C13 witness: the analysis of a source that imports Init.Data.String alone,
\* a manifest module without imports, has returned its three paths.
C13_Witness ==
    /\ aPc = "done"
    /\ modules = (nInitDataString :> <<>>)
    /\ analysis.allModules = <<nInitDataString>>
    /\ Len(analysis.oleanPaths) = 3

\* C14: for every list of import names (any strings without whitespace, as an
\* import line yields them) the returned path list is in ascending
\* lexicographic order and holds no path more than once.
C14_PathsAscendingNoDuplicate ==
    aPc \in {"done", "again"} =>
        /\ \A i \in 1..(Len(analysis.oleanPaths) - 1) :
               ~StrLess(analysis.oleanPaths[i + 1], analysis.oleanPaths[i])
        /\ \A p \in Range(analysis.oleanPaths) : Count(p, analysis.oleanPaths) = 1

---------------------------------------------------------------------------
(* Properties of the file listing *)

\* the calls that have been made
ListCalled == {c \in DOMAIN listCallers : listCallers[c].state # "idle"}

\* the calls whose request failed
ListFailed == {c \in DOMAIN listCallers : listCallers[c].outcome \in ListingFailures}

\* the calls whose request brought a list
ListSucceeded == {c \in DOMAIN listCallers : listCallers[c].outcome = "ok"}

\* C15: a fetchCompleteFileList call (direct or through fetchAllOleanFiles)
\* made while an earlier call's listing request is in flight issues no second
\* request, so at most one listing request is in flight at any time.
C15_NoSecondRequestInFlight ==
    /\ \A c \in ListCalled : listCallers[c].overlapped => ~listCallers[c].issued
    /\ Cardinality(ListInFlight) <= 1

\* C16 as stated: when the listing request fails (response not OK, network
\* error, JSON parse error) the call rejects.
C16_ListingFailureRejects ==
    \A c \in ListFailed : listCallers[c].state = "rejected"

\* C16 amended: when the listing request fails (response not OK, network
\* error, JSON parse error) no call rejects: fetchCompleteFileList resolves
\* with a new empty array, fetchAllOleanFiles resolves with an empty map
\* without calling fetchOleanFiles, and the failed call caches nothing.
C16_ListingFailureResolvesEmpty ==
    /\ \A c \in ListCalled : listCallers[c].state # "rejected"
    /\ \A c \in ListFailed :
           /\ listCallers[c].state = "resolved"
           /\ listCallers[c].value = EmptyArray
           /\ listCallers[c].via = "all" => listCallers[c].map = "empty"
           /\ fileListCache.obj # c

\* C16 witness: a call has met each of the three failures, one of them a
\* fetchAllOleanFiles call and one a direct call, and all have resolved.
C16_Witness ==
    /\ \A k \in ListingFailures :
           \E c \in ListFailed :
               listCallers[c].outcome = k /\ listCallers[c].state = "resolved"
    /\ \E c \in ListFailed : listCallers[c].via = "all"
    /\ \E c \in ListFailed : listCallers[c].via = "direct"

\* no call was made while another call's request was in flight
NoOverlap == \A c \in ListCalled : ~listCallers[c].overlapped

\* C17: a fetchCompleteFileList call requests the listing exactly when no
\* earlier call has retrieved it; a call that requests nothing returns the
\* retrieved list, the same array for all such calls when the calls do not
\* overlap; as long as no call has succeeded nothing is cached.
C17_RequestedUntilRetrieved ==
    /\ \A c \in ListCalled :
           /\ listCallers[c].issued <=> ~listCallers[c].successBefore
           /\ ~listCallers[c].issued =>
                  /\ listCallers[c].state \in {"resolved", "handed"}
                  /\ listCallers[c].value.obj \in ListSucceeded
                  /\ listCallers[c].value.list = listing
    /\ NoOverlap =>
           /\ Cardinality(ListSucceeded) <= 1
           /\ \A c \in ListCalled, d \in ListSucceeded :
                  ~listCallers[c].issued => listCallers[c].value = listCallers[d].value
    /\ ListSucceeded = {} => fileListCache = NoList

\* C17 witness: three calls that did not overlap: the first failed, the
\* second requested the listing again and retrieved it, the third requested
\* nothing and returned the second's array.
C17_Witness ==
    /\ NoOverlap
    /\ \E c1, c2, c3 \in ListCalled :
           /\ c1 \in ListFailed
           /\ listCallers[c2].failureBefore
           /\ listCallers[c2].issued
           /\ c2 \in ListSucceeded
           /\ listCallers[c3].successBefore
           /\ ~listCallers[c3].issued
           /\ listCallers[c3].state \in {"resolved", "handed"}
           /\ listCallers[c3].value = listCallers[c2].value

---------------------------------------------------------------------------
(* Properties of the session controller *)

\* C19: over the runs of a session, failed ones included, the artifact cache
\* only grows: no step of either app removes a path from it.
C19_CacheOnlyGrows == [][DOMAIN loadedOleans \subseteq DOMAIN loadedOleans']_vars

\* C19 witness: the second run of a session has ended in an error; it began
\* with files in the cache, fetched the paths it still needed and put what it
\* got into the cache, and the files cached before are still there.
C19_Witness ==
    /\ run.n = 2
    /\ run.pc = "ready"
    /\ run.failed
    /\ run.cachedThen # {}
    /\ run.needed # <<>>
    /\ run.cachedThen \subseteq DOMAIN loadedOleans

\* C20: in a run of the resolving app the paths handed to fetchOleanFiles are
\* exactly the required paths that were not in the cache when the run
\* computed its needed array; only those are requested, and when none is
\* needed fetchOleanFiles is not called.
C20_OnlyUncachedHanded ==
    appMode = "resolver" =>
        /\ fPc # "idle" =>
               /\ run.pc = "fetching"
               /\ paths = run.needed
               /\ Range(paths) = Range(run.required) \ run.cachedThen
               /\ \A i \in DOMAIN pool.requested :
                      pool.requested[i] > 0 => paths[i] \notin run.cachedThen
               /\ \A p \in FetchPaths : pool.awaiting[p] > 0 => p \notin run.cachedThen
        /\ run.pc = "loaded" /\ run.needed = <<>> =>
               Range(run.required) \subseteq run.cachedThen

\* C20 witness: the second run of the resolving app requires paths of which
\* some are cached and some are not, and a request for one that is not is in
\* flight.
C20_Witness ==
    /\ appMode = "resolver"
    /\ run.n = 2
    /\ fPc = "running"
    /\ run.cachedThen \cap Range(run.required) # {}
    /\ \E p \in FetchPaths : pool.awaiting[p] > 0

---------------------------------------------------------------------------
(* Properties of the artifact validator *)

\* the buffer with byte i replaced by b
WithByte(data, i, b) == [data EXCEPT ![i] = b]

\* C21: a buffer of fewer than 32 bytes is invalid; a buffer of at least 32
\* bytes whose first 4 bytes are 6f 6c 65 61 is valid, whatever the bytes
\* after them; and replacing any one of the first 4 bytes of a valid buffer
\* by another value gives an invalid buffer.
C21_ValidIffHeaderAndSignature ==
    vPc = "returned" =>
        /\ Len(oleanData) < 32 => ~oleanValid
        /\ (Len(oleanData) >= 32 /\ SubSeq(oleanData, 1, 4) = <<111, 108, 101, 97>>)
               => oleanValid
        /\ oleanValid =>
               \A i \in 1..4 : \A b \in (0..255) \ {oleanData[i]} :
                   ~isValidOlean(WithByte(oleanData, i, b))

\* a buffer longer than the header, with bytes of value 255 after the signature,
\* was found valid
C21_Witness ==
    /\ vPc = "returned"
    /\ oleanValid
    /\ Len(oleanData) > 32
    /\ oleanData[5] = 255

---------------------------------------------------------------------------
(* Properties of the archive codec *)

\* the name a tar writer gave the entry: the prefix field, when used, then the
\* name field
FullName(e) ==
    IF e.ustar /\ e.prefix # <<>> THEN e.prefix \o <<"/">> \o e.name ELSE e.name

\* a path segment of the name starts with "._"
HasSidecarSegment(name) ==
    \E i \in 1..(Len(name) - 1) :
        /\ name[i] = "." /\ name[i + 1] = "_"
        /\ IF i = 1 THEN TRUE ELSE name[i - 1] = "/"

\* the archive is a tar writer's: written entries only, then two zero blocks
WellFormedArchive ==
    /\ Range(tarEntries) \subseteq WrittenEntries
    /\ Len(tarData) = Len(archiveOf(tarEntries)) + 2 * BLOCK

\* the named buffers of the archive whose round trip is claimed: the entries
\* of a regular file that are no sidecar
BufferEntries ==
    {e \in Range(tarEntries) :
        e.type \in {TypeFile, TypeOldFile} /\ ~HasSidecarSegment(FullName(e))}

RoundTrip(e) ==
    /\ FullName(e) \in DOMAIN tarFiles
    /\ tarFiles[FullName(e)] = e.data

\* C22 as claimed: decoding a well-formed archive maps the name of every
\* buffer of the archive, of any length, that is neither a directory nor a
\* sidecar to the bytes of the buffer.
C22_RoundTripAnyLength ==
    (tPc = "returned" /\ WellFormedArchive) => \A e \in BufferEntries : RoundTrip(e)

\* C22 amended: decoding a well-formed archive maps the name of every buffer
\* of at least one byte that is neither a directory nor a sidecar to the bytes
\* of the buffer; a buffer of no bytes is not in the mapping.
C22_RoundTripNonEmpty ==
    (tPc = "returned" /\ WellFormedArchive) =>
        \A e \in BufferEntries :
            IF Len(e.data) > 0 THEN RoundTrip(e) ELSE FullName(e) \notin DOMAIN tarFiles

\* a buffer of more than one block and a buffer under a prefix went the round
\* trip
C22_Witness ==
    /\ tPc = "returned"
    /\ WellFormedArchive
    /\ Len(tarEntries) = 2
    /\ Len(tarEntries[1].data) = BLOCK + 1
    /\ FullName(tarEntries[2]) = nDirA
    /\ DOMAIN tarFiles = {nB, nDirA}
    /\ tarFiles[nB] = tarEntries[1].data

\* an iteration that read a header took a step
HeaderStep == tPc = "loop" /\ tPc' = "loop"

\* the name of the header is emitted by this step, or nothing is
Emits(claimed) ==
    IF claimed
    THEN /\ tarHeader'.name \in DOMAIN tarFiles'
         /\ \A n \in DOMAIN tarFiles : n # tarHeader'.name => n \in DOMAIN tarFiles'
    ELSE tarFiles' = tarFiles

\* C23 as claimed: a header read before the end-of-archive marker has its name
\* emitted exactly when its type flag is 0 or '0', its size is not zero and no
\* path segment of its name starts with "._".
C23_EmittedIffFileNonZeroNoSidecar ==
    [][HeaderStep =>
          Emits(/\ tarHeader'.typeFlag \in {0, 48}
                /\ tarHeader'.size # 0
                /\ ~HasSidecarSegment(tarHeader'.name))]_vars

\* C23 amended: a header read before the end-of-archive marker has its name
\* emitted exactly when its type flag is 0 or '0', its size is greater than
\* zero, its name is not empty and no path segment of the name starts with
\* "._"; no other header adds or changes an entry of the result.
C23_EmittedIffFilePositiveNamedNoSidecar ==
    [][HeaderStep =>
          Emits(/\ tarHeader'.typeFlag \in {0, 48}
                /\ tarHeader'.size > 0
                /\ tarHeader'.name # <<>>
                /\ ~HasSidecarSegment(tarHeader'.name))]_vars

\* after a sidecar in a directory, which was not emitted, the file D/A was
C23_Witness ==
    /\ Len(tarEntries) = 2
    /\ tarEntries[1].name = nDirSidecar
    /\ tarHeader.at > 0
    /\ tarHeader.emitted
    /\ DOMAIN tarFiles = {nDirA}

\* C24: every header that is processed moves the read position forward, by
\* 512 plus the recorded size rounded up to a multiple of 512, whatever the
\* size field holds.
C24_ReadPositionIncreases ==
    [][HeaderStep =>
          /\ tarOffset' = tarOffset + BLOCK
                          + (0 - ((0 - tarHeader'.size) \div BLOCK)) * BLOCK
          /\ tarOffset' > tarOffset]_vars

---------------------------------------------------------------------------
(* Properties of the sandbox protocol *)

IsTo(m) == m.dir = "to"

\* the types of the messages sent to the sandbox, in order
SentTypes(log) ==
    LET sent == SelectSeq(log, IsTo) IN [k \in 1..Len(sent) |-> sent[k].type]

\* what a step adds to the log of iframe i
Added(i) == SubSeq(iframes'[i].log, Len(iframes[i].log) + 1, Len(iframes'[i].log))

\* the order of the messages that a step sends to iframe i, where
\* withLibrary lists what may follow 'configure' in a run with library files
SendsInOrder(i, withLibrary) ==
    LET sentBefore == SentTypes(iframes[i].log)
        sends == SentTypes(Added(i))
    IN sends # <<>> =>
        /\ sentBefore = <<>> => sends[1] = "configure"
        /\ \/ /\ sends[1] = "configure"
              /\ IF sbRun.libraryFiles > 0
                 THEN sends \in withLibrary
                 ELSE sends = <<"configure", "start">>
           \/ /\ sends = <<"start">>
              /\ Added(i) = <<From("library_received"), To("start", sbRun.n)>>
              /\ "configure" \in Range(sentBefore)

\* C25 as claimed: 'configure' is the first message sent to a sandbox; a run
\* with library files then sends 'load_library', and 'start' only once
\* 'library_received' has been received; a run without library files sends
\* 'start' directly after 'configure' and never 'load_library'.
C25_ConfigureLibraryStart ==
    [][\A i \in DOMAIN iframes :
          SendsInOrder(i, {<<"configure", "load_library">>})]_vars

\* C25 amended: as claimed, except that a run with library files sends nothing
\* after 'configure' when posting the library throws.
C25_ConfigureLibraryStartUnlessThrown ==
    [][\A i \in DOMAIN iframes :
          SendsInOrder(i, {<<"configure", "load_library">>, <<"configure">>})]_vars

\* a sandbox got configure, load_library and, after library_received, start
C25_Witness ==
    \E i \in DOMAIN iframes :
        iframes[i].log = <<From("iframe_ready"), To("configure", 2),
                           To("load_library", 2), From("library_received"),
                           To("start", 2)>>

Attached(frames) == {i \in DOMAIN frames : frames[i].attached}

\* C26: a run sends 'configure' only to the sandbox it has created itself,
\* which is then the newest and the only one attached, the previous one having
\* been removed; every message a sandbox is sent comes from the one run that
\* created it, and no run creates two; at most one sandbox is attached at any
\* time.
C26_FreshSandboxPerRun ==
    [][/\ Cardinality(Attached(iframes')) <= 1
       /\ \A i \in DOMAIN iframes' :
              /\ \A m \in Range(iframes'[i].log) :
                     IsTo(m) => m.run = iframes'[i].createdBy
              /\ \A j \in DOMAIN iframes' :
                     j # i => iframes'[j].createdBy # iframes'[i].createdBy
       /\ \A i \in DOMAIN iframes :
              "configure" \in Range(SentTypes(Added(i))) =>
                  /\ i = Len(iframes')
                  /\ Attached(iframes') = {i}
                  /\ iframes'[i].createdBy = sbRun.n]_vars

\* two runs have each configured a sandbox of their own, and the first run's
\* sandbox is removed
C26_Witness ==
    /\ Len(iframes) = 3
    /\ "configure" \in Range(SentTypes(iframes[2].log))
    /\ "configure" \in Range(SentTypes(iframes[3].log))
    /\ Attached(iframes) = {3}

\* the sandbox of the current run reports 'error' to a listener in this step
ErrorReported ==
    /\ sbRun.pc \in {"creating", "executing"}
    /\ Added(scriptRef) = <<From("error")>>

\* the 120 s timeout of the current runInIframe call fires in this step
ExecutionTimedOut ==
    /\ sbRun.pc = "executing"
    /\ [kind |-> "run", run |-> sbRun.n] \in timers \ timers'

\* C27: when the sandbox reports 'error', or the timeout of the run fires
\* with neither 'done' nor 'error' received, the run ends in its catch: the
\* error text is recorded, the listener is removed and the status is 'ready'
\* again, which is what a further run needs to start.
C27_ErrorOrTimeoutEndsRun ==
    [][(ErrorReported \/ ExecutionTimedOut) =>
          /\ error' = IF ErrorReported THEN "sandbox" ELSE "Lean execution timeout"
          /\ status' = "ready"
          /\ sbRun'.pc = "idle"
          /\ \A l \in listeners' : l.run # sbRun.n]_vars

\* after a run whose sandbox sent neither 'done' nor 'error', a second run has
\* configured a fresh sandbox
C27_Witness ==
    /\ sbRun.n = 2
    /\ sbRun.pc = "executing"
    /\ Len(iframes) = 3
    /\ "start" \in Range(SentTypes(iframes[2].log))
    /\ Posted(iframes[2]) \cap {"done", "error"} = {}
    /\ "configure" \in Range(SentTypes(iframes[3].log))

---------------------------------------------------------------------------
(* Properties of the resolver: the seed list and the resolved set *)

\* the index of the first occurrence of x in s
FirstAt(s, x) == CHOOSE i \in 1..Len(s) : s[i] = x /\ \A j \in 1..(i - 1) : s[j] # x

\* t is s with every repeated occurrence removed
IsDeduplicated(t, s) ==
    /\ Range(t) = Range(s)
    /\ \A i, j \in 1..Len(t) : i < j => FirstAt(s, t[i]) < FirstAt(s, t[j])

\* C28: the seeds are the explicit imports followed by the implicit imports,
\* each name once; allModules is exactly the seeds with everything the
\* traversal reaches from them through the manifest's imports lists (it does
\* not follow the value 'all'); so every seed is in allModules, also one absent
\* from the manifest, and every other member is reachable from a seed through
\* manifest imports.
C28_AllModulesIsSeedsAndClosure ==
    aPc \in {"paths", "done", "again"} =>
        /\ IsDeduplicated(analysis.allImports, explicitImports \o implicitImports)
        /\ Range(analysis.allModules) = ReachableFrom(Seeds, modules, {nAll})
        /\ Seeds \subseteq Range(analysis.allModules)
        /\ Range(analysis.allModules) \ Seeds
               \subseteq ReachableFrom(Seeds, modules, {}) \ Seeds

\* an explicit and an implicit seed, one of them absent from the manifest, and
\* a module that is no seed are the resolved set
C28_Witness ==
    /\ aPc = "done"
    /\ Len(analysis.allImports) = 2
    /\ implicitImports # <<>>
    /\ Seeds \ DOMAIN modules # {}
    /\ Range(analysis.allModules) \ Seeds # {}

\* C29: 'all' is never a member of the resolved module set, and none of the
\* returned paths is derived from it.
C29_AllNeverResolved ==
    aPc \in {"paths", "done", "again"} =>
        /\ nAll \notin Range(analysis.allModules)
        /\ Range(analysis.oleanPaths)
               \cap {nAll \o sfxOlean, nAll \o sfxServer, nAll \o sfxPrivate} = {}

---------------------------------------------------------------------------
(* Properties of the import analyzer *)

\* the characters p r e l u d e stand somewhere in the text, one after another
ContainsMarker(text) ==
    \E i \in 1..(Len(text) - 6) : \A k \in 1..7 : text[i + k - 1] = nPrelude[k]

\* the manifests and explicit imports the resolved set is computed for
AnalyzedManifests == ManifestsOver({nInit, nA}, 2)
AnalyzedExplicit == SeqsUpTo(SeedValues, 1)

\* allModules of analyzeCodeDependencies for these imports and this manifest
AllModulesOf(explicit, implicit, mods) ==
    resolveSeeds(dedupe(explicit \o implicit, {}), mods).allModules

---------------------------------------------------------------------------
(* Properties of parseUserImports *)

\* the positions of a line where a word starts after white space or at the start
WordStarts(s) ==
    {i \in 1..Len(s) : ~isSpace(s[i]) /\ (i = 1 \/ isSpace(s[i - 1]))}

\* the word that starts at position i: up to the next white space
WordFrom(s, i) ==
    SubSeq(s, i, CHOOSE j \in i..Len(s) :
                     /\ \A k \in i..j : ~isSpace(s[k])
                     /\ (j = Len(s) \/ isSpace(s[j + 1])))

\* the words of a line, in order
WordsOf(s) ==
    [n \in 1..Cardinality(WordStarts(s)) |->
        WordFrom(s, CHOOSE i \in WordStarts(s) :
                        Cardinality({j \in WordStarts(s) : j < i}) = n - 1)]

\* the optional modifiers, in the order the form allows
Modifiers == {<<>>, <<wPublic>>, <<wMeta>>, <<wPublic, wMeta>>}

\* the modifiers that the words of an import statement start with
ModifiersOf(words) ==
    {m \in Modifiers : /\ Len(words) >= Len(m) + 2
                       /\ SubSeq(words, 1, Len(m) + 1) = m \o <<wImport>>}

\* the line is a line comment: its first word begins with the comment marker
IsCommentLine(line) ==
    WordsOf(line) # <<>> /\ startsWith(WordsOf(line)[1], wComment)

\* the line has the form [public] [meta] import <ModuleName>
HasImportForm(line) == ~IsCommentLine(line) /\ ModifiersOf(WordsOf(line)) # {}

\* the module name of a line of that form
ModuleNameOf(line) ==
    WordsOf(line)[Len(CHOOSE m \in ModifiersOf(WordsOf(line)) : TRUE) + 2]

\* C31: parseUserImports returns, in the order of the lines, the module name of
\* every line that, after its leading white space, reads [public] [meta]
\* import <ModuleName> (the words separated by white space, anything may
\* follow the name), and nothing for a comment line or a line not of that form.
C31_ImportsOfFormInOrder ==
    pPc = "returned" =>
        explicitFound =
            flatten([i \in 1..Len(codeLines) |->
                        IF HasImportForm(codeLines[i])
                        THEN <<ModuleNameOf(codeLines[i])>>
                        ELSE <<>>])

\* a line with both modifiers and a line with tabs, doubled blanks and a
\* carriage return gave their two names in the order of the lines
C31_Witness ==
    /\ pPc = "returned"
    /\ includes(code, wPublic \o <<" ", "\t">> \o wMeta)
    /\ explicitFound = << <<"B">>, <<"A", ".", "B">> >>

---------------------------------------------------------------------------
(* Properties of the memoization cache *)

\* C32: once the closure loop has run, every set the cache holds for a module
\* m is the full set of the names reachable from m through the manifest's
\* imports lists (not following 'all'; m itself counted or not), also for a
\* module on an import cycle; so the set a later seed gets from the cache is
\* its complete closure.
C32_CachedSetsComplete ==
    aPc \in {"paths", "done"} =>
        /\ \A m \in DOMAIN analysis.cache :
               analysis.cache[m] \cup {m} = ReachableFrom({m}, modules, {nAll})
        /\ \A i \in 1..Len(analysis.traversals) :
               LET t == analysis.traversals[i]
               IN t.seed \in t.hits =>
                      t.deps \cup {t.seed} = ReachableFrom({t.seed}, modules, {nAll})

---------------------------------------------------------------------------
(* Properties of parseTar on truncated archives *)

\* C33: the file emitted for the header read last has exactly as many bytes
\* as the size field of the header records, also when the archive ends before
\* the recorded data does.
C33_EmittedHasRecordedSize ==
    (tarHeader.emitted /\ tarHeader.name \in DOMAIN tarFiles) =>
        Len(tarFiles[tarHeader.name]) = tarHeader.size

\* the archive was cut off inside its last block
CutOff == Len(tarData) % BLOCK # 0

\* the same for archives that are not cut off
EmittedHasRecordedSizeUncut == ~CutOff => C33_EmittedHasRecordedSize

---------------------------------------------------------------------------
(* Properties of the message listeners and the timeouts *)

\* the step dispatches a message of iframe i
Dispatches(i) == delivered'.iframe = i /\ delivered' # delivered

\* iframe i is the sandbox that the run in progress, or loadLean in
\* progress, has created
IsCurrent(i) ==
    /\ i = scriptRef
    /\ iframes[i].attached
    /\ \/ sbRun.pc # "idle" /\ iframes[i].createdBy = sbRun.n
       \/ load.pc # "idle" /\ iframes[i].createdBy = loadId(load.n)

\* C34: a message whose source is not the window of the current sandbox (a
\* late 'done', 'error' or 'stdout' of a removed one) runs no branch of any
\* listener: it writes no output, settles no promise and leaves the run, the
\* status, the error text and the listeners as they are.
C34_StaleMessageIgnored ==
    [][\A i \in DOMAIN iframes :
          (Dispatches(i) /\ ~IsCurrent(i)) =>
              /\ ~delivered'.acted
              /\ UNCHANGED <<sbRun, status, error, listeners, moduleRef, iframes>>]_vars

\* while the second run is executing with its listener registered, a late
\* 'done' of the removed sandbox of the first run was dispatched
C34_Witness ==
    /\ sbRun.n = 2
    /\ sbRun.pc = "executing"
    /\ delivered = [iframe |-> 2, type |-> "done", acted |-> FALSE]
    /\ iframes[2].createdBy = 1
    /\ "start" \in Range(SentTypes(iframes[2].log))
    /\ \E l \in listeners : l.kind = "run" /\ l.run = 2

\* the promise that the timeout t would reject is still pending
Pending(t) ==
    IF t.kind = "create"
    THEN runAwaits({t}) \/ loadAwaits({t})
    ELSE sbRun.pc = "executing" /\ sbRun.n = t.run

\* the step fires the timeout t
Fires(t) == t \in timers /\ t \notin timers'

\* the step settles a promise on a message
SettlesOnMessage ==
    /\ delivered' # delivered
    /\ delivered'.acted
    /\ delivered'.type \in {"iframe_ready", "done", "error"}

\* C35: a step that settles a promise on a message cancels no timeout; and a
\* 120 s timeout whose promise is settled already (one of an earlier call)
\* changes, when it fires, neither the run in progress nor the status or the
\* error text, and removes no listener.
C35_StaleTimeoutHarmless ==
    [][/\ SettlesOnMessage => timers \subseteq timers'
       /\ \A t \in timers :
              (t.kind \in {"create", "run"} /\ Fires(t) /\ ~Pending(t)) =>
                  UNCHANGED <<sbRun, status, error, listeners, loadVars, moduleRef,
                              iframes>>]_vars

\* the timeout of the first run's runInIframe call has fired while the second
\* run was executing; the second run goes on with its listener and its timeout
C35_Witness ==
    /\ sbRun.n = 2
    /\ sbRun.pc = "executing"
    /\ delivered = TimedOut(FALSE)
    /\ Len(iframes) = 3
    /\ iframes[2].createdBy = 1
    /\ "start" \in Range(SentTypes(iframes[2].log))
    /\ [kind |-> "run", run |-> 1] \notin timers
    /\ [kind |-> "create", run |-> 2] \in timers
    /\ [kind |-> "run", run |-> 2] \in timers
    /\ \E l \in listeners : l.kind = "run" /\ l.run = 2

\* the promise that the listener l would settle is still pending
Awaited(l) ==
    IF l.kind = "create"
    THEN runAwaits({l}) \/ loadAwaits({l})
    ELSE sbRun.pc = "executing" /\ sbRun.n = l.run

\* C36: every listener registered is the one of the createFreshModule or
\* runInIframe promise that is pending now, so none is left when no operation
\* is in progress and there is never more than one; and a pending promise has
\* its 120 s timeout armed, which rejects it when it fires, so it settles on
\* 'iframe_ready', 'done', 'error' or the timeout.
C36_NoListenerOutlivesItsPromise ==
    /\ \A l \in listeners : Awaited(l)
    /\ Cardinality(listeners) <= 1
    /\ (sbRun.pc = "idle" /\ load.pc = "idle") => listeners = {}
    /\ (sbRun.pc = "creating" \/ load.pc = "creating") =>
           /\ moduleRef = 0
           /\ \E t \in timers : t.kind = "create" /\ Pending(t)
           /\ \E l \in listeners : l.kind = "create"
    /\ sbRun.pc = "executing" =>
           /\ [kind |-> "run", run |-> sbRun.n] \in timers
           /\ \E l \in listeners : l.kind = "run"

\* after loadLean and two runs, the second of which ended on its timeout, no
\* listener is registered
C36_Witness ==
    /\ wasmLoaded
    /\ sbRun.n = 2
    /\ sbRun.pc = "idle"
    /\ error = "Lean execution timeout"
    /\ Len(iframes) >= 3
    /\ "configure" \in Range(SentTypes(iframes[Len(iframes) - 1].log))
    /\ listeners = {}

---------------------------------------------------------------------------
(* Properties of the controller status *)

StatusChanges ==
    {<<"idle", "loading">>, <<"idle", "error">>, <<"error", "loading">>,
     <<"error", "error">>, <<"loading", "ready">>, <<"loading", "error">>,
     <<"ready", "running">>, <<"running", "ready">>}

\* the messages sent to the sandboxes so far
SentTo(frames) == [i \in DOMAIN frames |-> SelectSeq(frames[i].log, IsTo)]

\* C39: the status changes only along idle->loading, idle->error,
\* error->loading, loading->ready, loading->error, ready->running and
\* running->ready (and stays 'error' when a retry fails at once); it is
\* 'ready' or 'running' only when wasmLoaded is true; and while wasmLoaded is
\* false no run starts: a run operation invoked then changes neither the
\* status nor the run, creates no sandbox and sends no message.
C39_StatusTransitions ==
    [][/\ status' # status => <<status, status'>> \in StatusChanges
       /\ status' \in {"ready", "running"} => wasmLoaded'
       /\ ~wasmLoaded =>
              /\ sbRun' = sbRun
              /\ SentTo(iframes') = SentTo(iframes) \/ Len(iframes') > Len(iframes)
              /\ (error' = "Lean WASM not loaded yet" /\ error' # error) =>
                     UNCHANGED <<status, scriptRef, moduleRef, iframes, listeners,
                                 timers, loadVars>>]_vars

\* a load failed in its sandbox; during the retry a run operation was invoked
\* too early and left its error text; the retry succeeded
C39_Witness ==
    /\ wasmLoaded
    /\ load.n = 2
    /\ Len(iframes) = 2
    /\ status = "ready"
    /\ error = "Lean WASM not loaded yet"
    /\ sbRun = NoSandboxRun

---------------------------------------------------------------------------
(* Properties of the session controller: what a later run fetches again *)

\* every fetch of the path p in this session yields bytes that validate
YieldsValidBytes(p) == server[p].kind = "ok" /\ isValidOlean(server[p].body)

\* C37: in the resolving app the artifact cache holds only paths whose fetch
\* yielded valid bytes (a miss or a body that fails validation is not
\* cached), so in every run a required path that did not yield valid bytes
\* is among the paths handed to fetchOleanFiles, each of which is requested
\* from the network once before fetchOleanFiles returns; a required path is
\* skipped only if it is cached, and so yielded valid bytes.
C37_FailedPathsRequestedAgain ==
    appMode = "resolver" =>
        /\ \A p \in DOMAIN loadedOleans :
               YieldsValidBytes(p) /\ loadedOleans[p] = server[p].body
        /\ run.pc \in {"fetching", "loaded"} =>
               \A p \in Range(run.required) :
                   /\ ~YieldsValidBytes(p) => p \in Range(run.needed)
                   /\ p \notin Range(run.needed) =>
                          p \in run.cachedThen /\ YieldsValidBytes(p)
        /\ fPc = "resolved" =>
               /\ paths = run.needed
               /\ \A i \in DOMAIN paths : pool.requested[i] = 1

\* C37 witness: the second run of the resolving app requires a path that is
\* cached and a path whose fetch does not yield valid bytes; the first was
\* skipped and the second was requested again, and fetchOleanFiles has
\* returned without it.
C37_Witness ==
    /\ appMode = "resolver"
    /\ run.n = 2
    /\ run.pc = "fetching"
    /\ fPc = "resolved"
    /\ \E p \in Range(run.required) \cap run.cachedThen : p \notin Range(paths)
    /\ \E i \in DOMAIN paths :
           /\ ~YieldsValidBytes(paths[i])
           /\ pool.requested[i] = 1
           /\ paths[i] \notin DOMAIN files

\* a run of the app that loads everything begins
BulkRunStarts == appMode = "bulk" /\ run'.n = run.n + 1

\* loadAllOleans returns from a full load: the run began with an empty cache
FullLoadReturns ==
    /\ appMode = "bulk"
    /\ run.pc \in {"listingAgain", "fetching"}
    /\ run'.pc = "loaded"

\* C38: in the app that loads everything, a run that begins while the cache
\* holds a file hands the cache to the sandbox as it is, and from its
\* beginning to its end no fetchCompleteFileList call is made, no artifact is
\* requested and the cache is not changed, whatever listed paths are missing
\* from it; a run that begins while the cache is empty calls
\* fetchCompleteFileList and then fetchAllOleanFiles, which requests every
\* listed path.
C38_BulkRunsUseFilledCache ==
    [][/\ BulkRunStarts /\ DOMAIN loadedOleans # {} =>
              /\ run'.pc = "loaded"
              /\ run'.result = loadedOleans
              /\ UNCHANGED <<loadedOleans, fetchVars, listVars>>
       /\ appMode = "bulk" /\ run.pc = "loaded" /\ run.cachedThen # {} =>
              UNCHANGED <<loadedOleans, fetchVars, listVars>>
       /\ BulkRunStarts /\ DOMAIN loadedOleans = {} =>
              /\ run'.pc = "listing"
              /\ listCallers[1].state = "idle"
              /\ listCallers'[1].state # "idle"
              /\ listCallers'[1].via = "direct"
       /\ FullLoadReturns =>
              /\ run.cachedThen = {}
              /\ listCallers[2].via = "all"
              /\ IF Len(listCallers[2].value.list) = 0
                 THEN listCallers[2].state = "resolved" /\ fPc = "idle"
                 ELSE /\ listCallers[2].state = "handed"
                      /\ fPc = "resolved"
                      /\ paths = listCallers[2].value.list
                      /\ \A i \in DOMAIN paths : pool.requested[i] = 1]_vars

\* C38 witness: the second run of the app that loads everything has handed
\* over the cache of the first load, in which a listed path is missing
\* because its fetch failed; nothing has been called or requested.
C38_Witness ==
    /\ appMode = "bulk"
    /\ run.n = 2
    /\ run.pc = "loaded"
    /\ run.cachedThen # {}
    /\ run.result = loadedOleans
    /\ \E p \in Range(listing) : p \notin DOMAIN loadedOleans
    /\ fPc = "idle"
    /\ \A c \in DOMAIN listCallers : listCallers[c] = NotCalledListing

=============================================================================
